---- MODULE Spec2Model ----
(***************************************************************************)
(* The sensor-acquisition flow of the health-check screen: the React hook  *)
(* useHealthCheck (src/src/lib/hooks/useHealthCheck.ts lines 1-223, called *)
(* "primary" below) and its variant src/unnamed/part_010 ("part010"),      *)
(* together with the page that renders them and the LoadingCircle          *)
(* component that calls handleComplete back.                               *)
(*                                                                         *)
(* React is modelled as it schedules the code: an event handler runs to    *)
(* completion and queues its state updates (the updater functions are      *)
(* applied in order, so `state` below is the state the next render will    *)
(* see); the re-render and the effects it triggers are a later task        *)
(* (Render).  Callbacks created by a render see the state of that render   *)
(* (a Snapshot); values kept in refs are shared by all of them.            *)
(*                                                                         *)
(* Readings are kept in tenths (36.6 is 366); the labels of the source    *)
(* are transliterated to ASCII.                                            *)
(***************************************************************************)
EXTENDS Integers, Sequences, FiniteSets, TLC

\* ------------------------------------------------------------------ bounds
\* stabilityTime has no cap in the code; events that would push it past
\* this value are not delivered.
MaxCount == 8
\* LoadingCircle timers (setTimeout(onComplete, 500)) pending at one time.
MaxPending == 1
\* Answers of the endpoint that release the submission latch.
MaxFailures == 1

\* --------------------------------------------------------------- constants
MAX_STABILITY_TIME == 7

Phases == {"TEMPERATURE", "PULSE", "ALCOHOL"}

\* "Ne opredeleno", "Trezvyj", "Pyanyj" stand for the Cyrillic labels.
Sentinel == "Ne opredeleno"
Sober == "Trezvyj"
Drunk == "Pyanyj"

\* A field that is not present in a payload (JavaScript undefined).
Undefined == "undefined"
\* The result of parseFloat on a string with no numeric prefix.
NaN == -1

\* --------------------------------------------------------------- payloads
TemperatureStrings == {"36.6", ""}
PulseStrings == {"72"}
AlcoholStrings == {"normal", "high"}
ReadyValues == {"true", "false"}

\* type SensorData; null is the payload `!data` rejects.  The field pulse
\* is `pulse` for the primary hook and `bpm` for part010.
NullData ==
    [isNull |-> TRUE, temperature |-> Undefined, pulse |-> Undefined,
     alcoholLevel |-> Undefined, sensorReady |-> Undefined]

SensorData ==
    [isNull : {FALSE},
     temperature : TemperatureStrings \cup {Undefined},
     pulse : PulseStrings \cup {Undefined},
     alcoholLevel : AlcoholStrings \cup {Undefined},
     sensorReady : ReadyValues \cup {Undefined}]

Payloads == SensorData \cup {NullData}

\* JavaScript truthiness of an optional string field.
Truthy(v) == v # Undefined /\ v # ""

\* parseFloat on the strings above, in tenths.
ParseFloat(s) ==
    CASE s = "36.6" -> 366
      [] s = "72" -> 720
      [] OTHER -> NaN

\* data.alcoholLevel === "normal" ? sober : drunk
MapAlcoholLevel(v) == IF v = "normal" THEN Sober ELSE Drunk

\* ------------------------------------------------------------------ state
VARIABLES
    hook,              \* which hook runs: "primary", "part010", "part009",
                       \* "third", "part008", "part007" or "part006"
    route,             \* screen shown: "health-check", "final-results",
                       \* "complete-authentication", "home", "error"
    state,             \* useState<HealthCheckState>, all queued updates applied
    dirty,             \* a state update is queued and not yet rendered
    rendered,          \* the state the last render saw (closure of handleComplete)
    listenerSnap,      \* the state seen by the handleComplete that the
                       \* registered handleDataEvent calls
    socket,            \* refs.socket: connected, channels with a listener
    timers,            \* refs.tempTimeout, refs.pulseTimeout, refs.alcoholTimeout
    hasTimedOut,       \* refs.hasTimedOutTemp / Pulse / Alcohol
    finalAlcoholLevel, \* refs.finalAlcoholLevel
    hasBeenReady,      \* refs.hasBeenReady
    isSubmitting,      \* refs.isSubmitting
    faceId,            \* localStorage item "faceId"
    inflight,          \* the POST /health request awaiting its answer
    posts,             \* requests sent to POST /health so far
    failures,          \* answers so far that released the latch
    toasts,            \* toast.error calls of handleTimeout so far
    navHomePending,    \* pending setTimeout(() => navigate("/"), 1000)
    pendingComplete,   \* pending setTimeout(onComplete, 500), oldest first
    orphans,           \* phases with a pending timer whose id no ref holds
    page,              \* local state of the HealthCheck page (see InitialPage)
    seq,               \* further refs and state of the sequence-driven hooks
                       \* (see NoSeq)
    last               \* what the last step did (see Step)

vars ==
    <<hook, route, state, dirty, rendered, listenerSnap, socket, timers,
      hasTimedOut, finalAlcoholLevel, hasBeenReady, isSubmitting, faceId,
      inflight, posts, failures, toasts, navHomePending, pendingComplete,
      orphans, page, seq, last>>

Hooks == {"primary", "part010"}

\* useState initial value (secondsLeft is constant and left out).
InitialState ==
    [currentState |-> "TEMPERATURE", stabilityTime |-> 0, temperature |-> 0,
     pulse |-> 0, alcoholLevel |-> Sentinel, sensorReady |-> FALSE]

\* What a callback created by a render reads from `state`.
Snapshot(s) ==
    [currentState |-> s.currentState, temperature |-> s.temperature,
     pulse |-> s.pulse]

\* localStorage.getItem returns null for a missing item.
NullItem == "null"
FaceIdValues == {NullItem, "face-1"}

NoRequest ==
    [pending |-> FALSE, temperature |-> 0, pulse |-> 0, alcoholLevel |-> "",
     faceId |-> ""]

\* Timer refs: never assigned, holding a live timer, or holding the id of a
\* timer that fired or was cleared.
TimerNull == "null"
TimerArmed == "armed"
TimerStale == "stale"

\* clearTimeout(ref) with the mistake of clearing nothing.
ClearTimeout_NoOp(v) == v

\* clearTimeout(ref): a live timer is cancelled, the ref keeps its id.
ClearTimeout(v) == IF v = TimerArmed THEN TimerStale ELSE v

\* ------------------------------------------------------- handleDataEvent
\* setState updater of the temperature branch.
TemperatureUpdater(prev, temp) ==
    [prev EXCEPT !.stabilityTime = prev.stabilityTime + 1,
                 !.temperature = temp,
                 !.currentState =
                     IF prev.stabilityTime + 1 >= MAX_STABILITY_TIME
                     THEN "PULSE" ELSE prev.currentState]

\* setState updater of the pulse branch.
PulseUpdater(prev, pulse) ==
    [prev EXCEPT !.stabilityTime = prev.stabilityTime + 1,
                 !.pulse = pulse,
                 !.currentState =
                     IF prev.stabilityTime + 1 >= MAX_STABILITY_TIME
                     THEN "ALCOHOL" ELSE prev.currentState]

\* AlcoholUpdate with the stabilityTime entry of the update left out.
AlcoholUpdate_KeepsCounter(prev, label) ==
    [prev EXCEPT !.alcoholLevel = label]

\* updateState({ alcoholData, stabilityTime: MAX_STABILITY_TIME })
AlcoholUpdate(prev, label) ==
    [prev EXCEPT !.alcoholLevel = label,
                 !.stabilityTime = MAX_STABILITY_TIME]

\* updateState({ sensorReady: true })
ReadyUpdate(prev) == [prev EXCEPT !.sensorReady = TRUE]

\* The early returns of handleDataEvent.
DataReturnsEarly(h, d, timedOut) ==
    IF h = "primary"
    THEN d.isNull
    ELSE (\E p \in Phases : timedOut[p]) \/ d.isNull

\* The readiness branch is taken.
ReadyFires(h, d, ready) ==
    IF h = "primary"
    THEN d.sensorReady # Undefined /\ ~ready /\ d.sensorReady = "true"
    ELSE d.sensorReady = "true" /\ ~ready

\* if (data.temperature)
TemperatureFires(d) == Truthy(d.temperature)

\* if (data.pulse !== undefined) / if (data.bpm !== undefined)
PulseFires(d) == d.pulse # Undefined

\* AlcoholFires without the refs.hasBeenReady conjunct.
AlcoholFires_Ungated(h, d, ready) ==
    IF h = "primary"
    THEN d.alcoholLevel # Undefined
    ELSE Truthy(d.alcoholLevel)

\* The alcohol branch is taken; ready is refs.hasBeenReady after the
\* readiness branch.
AlcoholFires(h, d, ready) ==
    IF h = "primary"
    THEN d.alcoholLevel # Undefined /\ ready
    ELSE Truthy(d.alcoholLevel) /\ ready

\* ReadyAfter that copies every sensorReady value a payload carries.
ReadyAfter_Follows(h, d, ready) ==
    IF d.sensorReady # Undefined THEN d.sensorReady = "true" ELSE ready

\* refs.hasBeenReady after the readiness branch.
ReadyAfter(h, d, ready) == ready \/ ReadyFires(h, d, ready)

\* The state after the updates handleDataEvent queues for payload d.
StateAfterData(h, s, d, ready) ==
    LET s1 == IF ReadyFires(h, d, ready) THEN ReadyUpdate(s) ELSE s
        s2 == IF TemperatureFires(d)
              THEN TemperatureUpdater(s1, ParseFloat(d.temperature)) ELSE s1
        s3 == IF PulseFires(d)
              THEN PulseUpdater(s2, ParseFloat(d.pulse)) ELSE s2
        s4 == IF AlcoholFires(h, d, ReadyAfter(h, d, ready))
              THEN AlcoholUpdate(s3, MapAlcoholLevel(d.alcoholLevel)) ELSE s3
    IN  s4

\* handleDataEvent calls setState at least once.
DataSetsState(h, d, ready) ==
    \/ ReadyFires(h, d, ready)
    \/ TemperatureFires(d)
    \/ PulseFires(d)
    \/ AlcoholFires(h, d, ReadyAfter(h, d, ready))

\* clearTimeout(ref); ref = setTimeout(...) in each branch that is taken.
TimersAfterData(h, t, d, ready) ==
    [p \in Phases |->
        IF \/ p = "TEMPERATURE" /\ TemperatureFires(d)
           \/ p = "PULSE" /\ PulseFires(d)
           \/ p = "ALCOHOL" /\ AlcoholFires(h, d, ReadyAfter(h, d, ready))
        THEN TimerArmed ELSE t[p]]

\* ref = setTimeout(...) after clearTimeout(ref): a timer that is still
\* live when its ref is overwritten stays pending with no ref to it.
OrphansAfterData(h, t, o, d, ready) ==
    o \cup {p \in Phases :
              /\ \/ p = "TEMPERATURE" /\ TemperatureFires(d)
                 \/ p = "PULSE" /\ PulseFires(d)
                 \/ p = "ALCOHOL" /\ AlcoholFires(h, d, ReadyAfter(h, d, ready))
              /\ ClearTimeout(t[p]) = TimerArmed}

\* ---------------------------------------------------------- handleComplete
\* CompleteReturns without the refs.isSubmitting disjunct.
CompleteReturns_NoLatch(h, snap, submitting, timedOut) ==
    IF h = "primary"
    THEN snap.currentState # "ALCOHOL"
    ELSE timedOut["ALCOHOL"] \/ snap.currentState # "ALCOHOL"

\* The guard on the first line of handleComplete: TRUE when it returns.
CompleteReturns(h, snap, submitting, timedOut) ==
    IF h = "primary"
    THEN submitting \/ snap.currentState # "ALCOHOL"
    ELSE submitting \/ timedOut["ALCOHOL"] \/ snap.currentState # "ALCOHOL"

\* FaceIdMissing that tests for the empty string only.
FaceIdMissing_EmptyOnly(id) == id = ""

\* if (!faceId) throw
FaceIdMissing(id) == id = NullItem \/ id = ""

\* CompleteOutcome with the guard reduced to the phase test.
CompleteOutcome_PhaseOnly(h, snap, submitting, timedOut, id) ==
    CASE snap.currentState # "ALCOHOL" -> "returned"
      [] FaceIdMissing(id) -> "threw"
      [] OTHER -> "sent"

\* How a call of handleComplete ends before its first await.
CompleteOutcome(h, snap, submitting, timedOut, id) ==
    CASE CompleteReturns(h, snap, submitting, timedOut) -> "returned"
      [] FaceIdMissing(id) -> "threw"
      [] OTHER -> "sent"

\* Channels handleComplete detaches before it disconnects.
CompleteOff(h) ==
    IF h = "primary" THEN {} ELSE {"temperature", "heartbeat", "alcohol"}

\* body of the fetch call
RequestBody(snap, level, id) ==
    [pending |-> TRUE, temperature |-> snap.temperature, pulse |-> snap.pulse,
     alcoholLevel |-> level, faceId |-> id]

\* handleComplete up to its first await, called from a closure that saw
\* snap, with refs.finalAlcoholLevel = level.
HandleComplete(snap, level) ==
    LET outcome ==
            CompleteOutcome(hook, snap, isSubmitting, hasTimedOut, faceId)
    IN  CASE outcome = "returned" ->
               UNCHANGED <<isSubmitting, socket, inflight, posts>>
          [] outcome = "threw" ->
               /\ isSubmitting' = FALSE
               /\ socket' = [connected |-> FALSE,
                             listeners |-> socket.listeners \ CompleteOff(hook)]
               /\ UNCHANGED <<inflight, posts>>
          [] outcome = "sent" ->
               /\ isSubmitting' = TRUE
               /\ socket' = [connected |-> FALSE,
                             listeners |-> socket.listeners \ CompleteOff(hook)]
               /\ inflight' = RequestBody(snap, level, faceId)
               /\ posts' = posts + 1

\* A handleTimeout without the latch test: every call signals.
TimeoutReturns_Never(type, timedOut) == FALSE

\* ---------------------------------------------------------- handleTimeout
\* TimeoutReturns with the test of the latch inverted.
TimeoutReturns_Inverted(type, timedOut) == ~timedOut[type]

\* The guard of handleTimeout: TRUE when it returns without a signal.
TimeoutReturns(type, timedOut) == timedOut[type]

\* ------------------------------------------------- the subscribing effect
PrimaryListeners(cur) ==
    {"sensorReady"} \cup
        (CASE cur = "TEMPERATURE" -> {"temperature"}
           [] cur = "PULSE" -> {"pulse"}
           [] cur = "ALCOHOL" -> {"alcohol"})

Part010Listeners ==
    {"temperature", "heartbeat", "alcohol", "sensorReady", "camera"}

\* The effect runs again after a render when one of its dependencies
\* changed.  primary: handleDataEvent is memoised on [handleComplete], read
\* before handleComplete is assigned, so it never changes and only
\* state.currentState does.  part010: handleDataEvent changes with every
\* state update.
EffectRuns(h, prev, s) ==
    IF h = "primary" THEN prev.currentState # s.currentState ELSE TRUE

\* The cleanup function of the effect, on the timer refs.
TimersAfterCleanup(h, t) ==
    IF h = "primary"
    THEN [p \in Phases |-> IF t[p] = TimerArmed THEN TimerStale ELSE t[p]]
    ELSE [p \in Phases |-> TimerNull]

\* The cleanup function of the effect, on the socket.
SocketAfterCleanup(h, sock) ==
    IF h = "primary"
    THEN [sock EXCEPT !.connected = FALSE]
    ELSE [sock EXCEPT !.listeners = {}]

\* TimersAfterBody that arms the timer of every phase.
TimersAfterBody_ArmsAll(h, t, cur, ready) == [p \in Phases |-> TimerArmed]

\* The body of the effect, on the timer refs.
TimersAfterBody(h, t, cur, ready) ==
    IF h = "primary"
    THEN [t EXCEPT ![cur] = TimerArmed]
    ELSE [p \in Phases |->
            IF \/ p = "TEMPERATURE" /\ cur = "TEMPERATURE" /\ t[p] = TimerNull
               \/ p = "PULSE" /\ ready /\ t[p] = TimerNull
               \/ p = "ALCOHOL" /\ cur = "ALCOHOL" /\ t[p] = TimerNull
            THEN TimerArmed ELSE t[p]]

\* The body of the effect assigns a timer ref: primary without looking at
\* the ref, part010 only when the ref is null.
OrphansAfterBody(h, t, o, cur) ==
    IF h = "primary" /\ t[cur] = TimerArmed THEN o \cup {cur} ELSE o

\* The body of the effect, on the socket (refs.socket exists already).
SocketAfterBody(h, sock, cur) ==
    IF h = "primary"
    THEN [sock EXCEPT !.listeners = PrimaryListeners(cur)]
    ELSE [sock EXCEPT !.listeners = Part010Listeners]

\* The handleComplete that the registered handleDataEvent calls.
ListenerSnapAfterEffect(h, ls, s) ==
    IF h = "primary" THEN ls ELSE Snapshot(s)

\* ------------------------------------------------ page and LoadingCircle
\* progress handed to LoadingCircle, rounded down to a whole percent.
Progress(h, s) ==
    IF h = "primary"
    THEN CASE s.currentState = "TEMPERATURE" ->
                (s.stabilityTime * 100) \div MAX_STABILITY_TIME
           [] s.currentState = "ALCOHOL" /\ s.alcoholLevel # Sentinel -> 100
           [] OTHER -> 0
    ELSE CASE s.currentState \in {"TEMPERATURE", "PULSE"} ->
                (s.stabilityTime * 100) \div MAX_STABILITY_TIME
           [] s.currentState = "ALCOHOL" /\ s.alcoholLevel # Sentinel -> 100
           [] OTHER -> 0

\* CircleSchedules without the test of progress.
CircleSchedules_Always(progress) == TRUE

\* LoadingCircle's effect: if (progress >= 100) setTimeout(onComplete, 500)
CircleSchedules(progress) == progress >= 100

\* ------------------------------------------------------------------- Init
\* secondsLeft of the hook state, which no statement changes.
SecondsLeft == 30

\* useState(secondsLeft) and useState(false) of the page, whether the
\* interval of its countdown effect runs, and the dependencies the effect
\* saw when it last ran.
InitialPage ==
    [countdown |-> SecondsLeft, countdownStarted |-> FALSE,
     interval |-> FALSE,
     deps |-> [currentState |-> "TEMPERATURE", sensorReady |-> FALSE,
               countdownStarted |-> FALSE]]

\* Refs and state that only the sequence-driven hooks (the third variant
\* of useHealthCheck.ts, part_006, part_007, part_008) have, at their
\* useRef and useState initial values: refs.timeout, a timer still pending
\* that refs.timeout no longer holds, refs.hasTimedOut, whether the
\* stability interval runs, processCompleted, refs.alcoholMeasured,
\* refs.stopPolling, refs.completed, whether the onValue subscription is
\* active, and the pending setTimeout of navigate("/complete-authentication").
NoSeq ==
    [timeout |-> "null", orphan |-> FALSE, hasTimedOut |-> FALSE,
     interval |-> FALSE, processCompleted |-> FALSE,
     alcoholMeasured |-> FALSE, stopPolling |-> FALSE, completed |-> FALSE,
     subscribed |-> FALSE, navCompletePending |-> FALSE]

NoTimers == [p \in Phases |-> TimerNull]

\* The names of the fields a payload carries.
Fields(d) ==
    {f \in {"temperature", "pulse", "alcoholLevel", "sensorReady"} :
        d[f] # Undefined}

\* What the last step did: the alcoholLevel field of the payload it
\* handled (Undefined when it handled none), and how the handleComplete call
\* it made ended ("none" when it made no call).
NoStep == [alcohol |-> Undefined, call |-> "none", timeout |-> "none"]

Step(d, call) ==
    [alcohol |-> d.alcoholLevel, call |-> call, timeout |-> "none"]

TimeoutStep(returns) ==
    [NoStep EXCEPT !.timeout = IF returns THEN "ignored" ELSE "none"]

\* The first render and its effects.  In the primary hook the dependency
\* array [handleComplete] is evaluated before the const handleComplete is
\* initialised: a build that keeps const throws there and the screen never
\* mounts (route "error"); a build that lowers const to var reads undefined.
Init ==
    /\ hook \in Hooks
    /\ route \in IF hook = "primary"
                 THEN {"health-check", "error"} ELSE {"health-check"}
    /\ state = InitialState
    /\ dirty = FALSE
    /\ rendered = Snapshot(InitialState)
    /\ listenerSnap = Snapshot(InitialState)
    /\ socket = IF route = "error"
                THEN [connected |-> FALSE, listeners |-> {}]
                ELSE SocketAfterBody(hook,
                        [connected |-> TRUE, listeners |-> {}], "TEMPERATURE")
    /\ timers = IF route = "error"
                THEN NoTimers
                ELSE TimersAfterBody(hook, NoTimers, "TEMPERATURE", FALSE)
    /\ hasTimedOut = [p \in Phases |-> FALSE]
    /\ finalAlcoholLevel = ""
    /\ hasBeenReady = FALSE
    /\ isSubmitting = FALSE
    /\ faceId \in FaceIdValues
    /\ inflight = NoRequest
    /\ posts = 0
    /\ failures = 0
    /\ toasts = 0
    /\ navHomePending = 0
    /\ pendingComplete = <<>>
    /\ orphans = {}
    /\ page = InitialPage
    /\ seq = NoSeq
    /\ last = NoStep

Mounted == route = "health-check"

\* ---------------------------------------------------------------- actions
\* The socket delivers payload d to a registered listener: handleDataEvent.
HandleDataEvent(d) ==
    /\ socket.connected /\ socket.listeners # {}
    /\ IF DataReturnsEarly(hook, d, hasTimedOut)
       THEN /\ last' = Step(d, "none")
            /\ UNCHANGED <<state, dirty, timers, finalAlcoholLevel,
                           hasBeenReady, isSubmitting, socket, inflight,
                           posts, orphans>>
       ELSE LET ready == ReadyAfter(hook, d, hasBeenReady)
                alcohol == AlcoholFires(hook, d, ready)
                level == IF alcohol THEN MapAlcoholLevel(d.alcoholLevel)
                         ELSE finalAlcoholLevel
            IN  /\ StateAfterData(hook, state, d, hasBeenReady).stabilityTime
                       <= MaxCount
                /\ state' = StateAfterData(hook, state, d, hasBeenReady)
                /\ dirty' = (dirty \/ DataSetsState(hook, d, hasBeenReady))
                /\ hasBeenReady' = ready
                /\ timers' = TimersAfterData(hook, timers, d, hasBeenReady)
                /\ orphans' = OrphansAfterData(hook, timers, orphans, d,
                                               hasBeenReady)
                /\ finalAlcoholLevel' = level
                /\ IF alcohol
                   THEN /\ HandleComplete(listenerSnap, level)
                        /\ last' = Step(d,
                               CompleteOutcome(hook, listenerSnap,
                                   isSubmitting, hasTimedOut, faceId))
                   ELSE /\ UNCHANGED <<isSubmitting, socket, inflight, posts>>
                        /\ last' = Step(d, "none")
    /\ UNCHANGED <<page, seq, hook, route, rendered, listenerSnap, hasTimedOut, faceId,
                   failures, toasts, navHomePending, pendingComplete>>

\* React renders the queued state and runs the effects whose dependencies
\* changed: LoadingCircle's (onComplete is a new handleComplete) and the
\* hook's.
RenderHook(pageDirty) ==
    /\ Mounted /\ dirty
    /\ CircleSchedules(Progress(hook, state)) => Len(pendingComplete) < MaxPending
    /\ dirty' = pageDirty
    /\ rendered' = Snapshot(state)
    /\ pendingComplete' =
          IF CircleSchedules(Progress(hook, state))
          THEN Append(pendingComplete, Snapshot(state))
          ELSE pendingComplete
    /\ IF EffectRuns(hook, rendered, state)
       THEN /\ timers' = TimersAfterBody(hook,
                             TimersAfterCleanup(hook, timers),
                             state.currentState, hasBeenReady)
            /\ socket' = SocketAfterBody(hook,
                             SocketAfterCleanup(hook, socket),
                             state.currentState)
            /\ listenerSnap' = ListenerSnapAfterEffect(hook, listenerSnap, state)
            /\ orphans' = OrphansAfterBody(hook,
                              TimersAfterCleanup(hook, timers), orphans,
                              state.currentState)
       ELSE UNCHANGED <<timers, socket, listenerSnap, orphans>>
    /\ last' = Step(NullData, "none")
    /\ UNCHANGED <<seq, hook, route, state, hasTimedOut, finalAlcoholLevel,
                   hasBeenReady, isSubmitting, faceId, inflight, posts,
                   failures, toasts, navHomePending>>

\* A render in which the page queues no update of its own: the countdown
\* of the page does not act on the hook and is followed in CountdownSpec.
Render == RenderHook(FALSE) /\ UNCHANGED page

\* A phase timer expires: handleTimeout(type).
TimerFires(type) ==
    /\ timers[type] = TimerArmed \/ type \in orphans
    /\ IF type \in orphans
       THEN orphans' = orphans \ {type} /\ timers' = timers
       ELSE orphans' = orphans /\ timers' = [timers EXCEPT ![type] = TimerStale]
    /\ IF TimeoutReturns(type, hasTimedOut)
       THEN UNCHANGED <<hasTimedOut, toasts, navHomePending>>
       ELSE /\ hasTimedOut' = [hasTimedOut EXCEPT ![type] = TRUE]
            /\ toasts' = toasts + 1
            /\ navHomePending' = navHomePending + 1
    /\ last' = TimeoutStep(TimeoutReturns(type, hasTimedOut))
    /\ UNCHANGED <<page, seq, hook, route, state, dirty, rendered, listenerSnap, socket,
                   finalAlcoholLevel, hasBeenReady, isSubmitting, faceId,
                   inflight, posts, failures, pendingComplete>>

\* Leaving the screen unmounts the hook: the effect's cleanup runs.
TimersAfterLeave(h, t, mounted) ==
    IF mounted THEN TimersAfterCleanup(h, t) ELSE t

SocketAfterLeave(h, sock, mounted) ==
    IF mounted THEN SocketAfterCleanup(h, sock) ELSE sock

\* The navigate("/") scheduled by handleTimeout runs.
NavigateHome ==
    /\ navHomePending > 0
    /\ navHomePending' = navHomePending - 1
    /\ route' = "home"
    /\ timers' = TimersAfterLeave(hook, timers, Mounted)
    /\ socket' = SocketAfterLeave(hook, socket, Mounted)
    /\ last' = Step(NullData, "none")
    /\ UNCHANGED <<page, seq, hook, state, dirty, rendered, listenerSnap, hasTimedOut,
                   finalAlcoholLevel, hasBeenReady, isSubmitting, faceId,
                   inflight, posts, failures, toasts, pendingComplete,
                   orphans>>

\* The oldest LoadingCircle timer runs onComplete, the handleComplete of
\* the render that scheduled it.
LoadingCircleTimer ==
    /\ pendingComplete # <<>>
    /\ pendingComplete' = Tail(pendingComplete)
    /\ HandleComplete(Head(pendingComplete), finalAlcoholLevel)
    /\ last' = Step(NullData,
                   CompleteOutcome(hook, Head(pendingComplete), isSubmitting,
                                   hasTimedOut, faceId))
    /\ UNCHANGED <<page, seq, hook, route, state, dirty, rendered, listenerSnap, timers,
                   hasTimedOut, finalAlcoholLevel, hasBeenReady, faceId,
                   failures, toasts, navHomePending, orphans>>

\* The presentation layer calls the handleComplete the hook returned from
\* its last render.
CallHandleComplete ==
    /\ Mounted
    /\ HandleComplete(rendered, finalAlcoholLevel)
    /\ last' = Step(NullData,
                   CompleteOutcome(hook, rendered, isSubmitting, hasTimedOut,
                                   faceId))
    /\ UNCHANGED <<page, seq, hook, route, state, dirty, rendered, listenerSnap, timers,
                   hasTimedOut, finalAlcoholLevel, hasBeenReady, faceId,
                   failures, toasts, navHomePending, pendingComplete,
                   orphans>>

\* Answers of the endpoint: fetch resolves with a success status, resolves
\* with an error status, or rejects.
Answers == {"ok", "error-status", "reject"}

\* The rest of handleComplete reaches navigate("/final-results").
AnswerNavigates(h, answer) ==
    IF h = "primary"
    THEN answer \in {"ok", "error-status"}
    ELSE answer = "ok"

\* The awaited fetch settles and handleComplete continues.
Response(answer) ==
    /\ inflight.pending
    /\ inflight' = NoRequest
    /\ IF AnswerNavigates(hook, answer)
       THEN /\ route' = "final-results"
            /\ timers' = TimersAfterLeave(hook, timers, Mounted)
            /\ socket' = SocketAfterLeave(hook, socket, Mounted)
            /\ UNCHANGED <<isSubmitting, failures>>
       ELSE /\ failures < MaxFailures
            /\ isSubmitting' = FALSE
            /\ failures' = failures + 1
            /\ UNCHANGED <<route, timers, socket>>
    /\ last' = Step(NullData, "none")
    /\ UNCHANGED <<page, seq, hook, state, dirty, rendered, listenerSnap, hasTimedOut,
                   finalAlcoholLevel, hasBeenReady, faceId, posts, toasts,
                   navHomePending, pendingComplete, orphans>>

Next ==
    \/ \E d \in Payloads : HandleDataEvent(d)
    \/ Render
    \/ \E type \in Phases : TimerFires(type)
    \/ NavigateHome
    \/ LoadingCircleTimer
    \/ CallHandleComplete
    \/ \E answer \in Answers : Response(answer)

Spec == Init /\ [][Next]_vars

\* ------------------------------------------- a cooperative sensor source
\* The channel a one-field payload is emitted on; the listener of the
\* pulse channel is registered as "pulse" by primary, "heartbeat" by part010.
Channel(h, d) ==
    CASE d.temperature # Undefined -> "temperature"
      [] d.pulse # Undefined -> IF h = "primary" THEN "pulse" ELSE "heartbeat"
      [] d.alcoholLevel # Undefined -> "alcohol"
      [] OTHER -> "sensorReady"

\* What a source that follows the flow emits next: temperature readings
\* until the phase leaves TEMPERATURE, pulse readings until it leaves
\* PULSE, then sensorReady = true and one alcohol classification.
SourceEmits(cur, ready, level) ==
    {d \in SensorData :
        /\ Cardinality(Fields(d)) = 1
        /\ CASE cur = "TEMPERATURE" -> d.temperature = "36.6"
             [] cur = "PULSE" -> d.pulse # Undefined
             [] cur = "ALCOHOL" /\ ~ready -> d.sensorReady = "true"
             [] cur = "ALCOHOL" /\ ready /\ level = "" ->
                    d.alcoholLevel # Undefined
             [] OTHER -> FALSE}

\* The payloads of the source that reach a registered listener.
Deliverable ==
    {d \in SourceEmits(state.currentState, hasBeenReady, finalAlcoholLevel) :
        socket.connected /\ Channel(hook, d) \in socket.listeners}

\* The source delivers its next payload.
Deliver == \E d \in Deliverable : HandleDataEvent(d)

\* Nothing but a timer is left to run: every reading came within its
\* window, so a phase timer only expires once the flow waits in vain.
WaitsInVain ==
    /\ Deliverable = {}
    /\ ~(Mounted /\ dirty)
    /\ pendingComplete = <<>>
    /\ ~inflight.pending
    /\ navHomePending = 0

TimerExpires == WaitsInVain /\ \E type \in Phases : TimerFires(type)

\* The endpoint answers with success.
EndpointSucceeds == Response("ok")

SourceNext ==
    \/ Deliver
    \/ Render
    \/ TimerExpires
    \/ NavigateHome
    \/ LoadingCircleTimer
    \/ EndpointSucceeds

\* The flow with a cooperative source and endpoint.  Rendering, timers and
\* the answer of the endpoint are tasks of the event loop and run once
\* they are due; the source keeps emitting.
SourceSpec ==
    /\ Init
    /\ [][SourceNext]_vars
    /\ WF_vars(Deliver)
    /\ WF_vars(Render)
    /\ WF_vars(TimerExpires)
    /\ WF_vars(NavigateHome)
    /\ WF_vars(LoadingCircleTimer)
    /\ WF_vars(EndpointSucceeds)

\* ------------------------------------------------- malformed readings
\* Strings parseFloat finds no number in.
MalformedStrings == {"abc", ""}

\* Payloads of readings, well-formed and malformed.
ReadingData ==
    [isNull : {FALSE},
     temperature : {"36.6", Undefined} \cup MalformedStrings,
     pulse : {"72", Undefined} \cup MalformedStrings,
     alcoholLevel : {Undefined},
     sensorReady : {Undefined}]

ReadingNext ==
    \/ \E d \in ReadingData : HandleDataEvent(d)
    \/ Render

\* The flow fed with readings of either kind.
ReadingSpec == Init /\ [][ReadingNext]_vars

\* ------------------------------------------------------------------ claims
PhaseIndex(p) ==
    CASE p = "TEMPERATURE" -> 0
      [] p = "PULSE" -> 1
      [] p = "ALCOHOL" -> 2

\* C1: in the primary hook and in part010 no step moves currentState
\* backward along TEMPERATURE -> PULSE -> ALCOHOL.
C1_PhaseNeverMovesBackward ==
    [][PhaseIndex(state'.currentState) >= PhaseIndex(state.currentState)]_vars

\* C2: in the primary hook every phase change goes to exactly the next
\* phase and enters it with stabilityTime 0.
C2_NextPhaseEnteredAtZero ==
    [][(hook = "primary" /\ state'.currentState # state.currentState)
         => /\ PhaseIndex(state'.currentState)
                 = PhaseIndex(state.currentState) + 1
            /\ state'.stabilityTime = 0]_vars

\* C3: in both hooks stabilityTime stays within 0 .. MAX_STABILITY_TIME.
C3_StabilityWithinThreshold ==
    state.stabilityTime >= 0 /\ state.stabilityTime <= 7

\* A payload all of whose fields belong to phases other than cur.
OutOfPhaseOnly(d, cur) ==
    /\ ~d.isNull
    /\ d.sensorReady = Undefined
    /\ Fields(d) # {}
    /\ d.temperature # Undefined => cur # "TEMPERATURE"
    /\ d.pulse # Undefined => cur # "PULSE"
    /\ d.alcoholLevel # Undefined => cur # "ALCOHOL"

\* C4: handleDataEvent on a payload that carries only fields of phases that
\* are not active leaves the phase, the counter, the readings and the
\* timers as they were.
C4_OutOfPhaseFieldsIgnored ==
    [][\A d \in Payloads :
          (OutOfPhaseOnly(d, state.currentState) /\ HandleDataEvent(d))
             => UNCHANGED <<state, timers, finalAlcoholLevel>>]_vars

\* The payloads that carry an alcohol classification and nothing that
\* another branch of handleDataEvent acts on.
AlcoholOnlyPayloads ==
    {d \in SensorData :
        /\ d.alcoholLevel # Undefined
        /\ d.temperature = Undefined
        /\ d.pulse = Undefined
        /\ d.sensorReady # "true"}

\* C5: in the primary hook an alcohol classification handled while
\* refs.hasBeenReady is false changes nothing: state, refs, timers, socket
\* and requests stay as they were and handleComplete is not called.
C5_AlcoholIgnoredBeforeReady ==
    [][(hook = "primary" /\ ~hasBeenReady /\ last'.alcohol # Undefined)
         => \A d \in AlcoholOnlyPayloads :
               HandleDataEvent(d)
                  => /\ UNCHANGED <<state, dirty, timers, finalAlcoholLevel,
                                    hasBeenReady, isSubmitting, socket,
                                    inflight, posts, route>>
                     /\ last'.call = "none"]_vars

\* C5 witness: the primary hook has just handled an alcohol payload while
\* readiness was false, in phase ALCOHOL.
C5_Witness ==
    /\ hook = "primary"
    /\ last.alcohol # Undefined
    /\ ~hasBeenReady
    /\ state.currentState = "ALCOHOL"

\* C6: in the primary hook an alcohol classification handled in phase
\* ALCOHOL while readiness is true stores the mapped label ("normal" gives
\* sober, anything else drunk), sets stabilityTime to MAX_STABILITY_TIME,
\* leaves the alcohol timer armed and calls handleComplete; the progress is
\* 100 when the phase is still ALCOHOL afterwards.
C6_AlcoholAcceptedWhenReady ==
    [][(/\ hook = "primary"
        /\ hasBeenReady
        /\ state.currentState = "ALCOHOL"
        /\ last'.alcohol # Undefined)
         => /\ state'.alcoholLevel
                 = (IF last'.alcohol = "normal" THEN "Trezvyj" ELSE "Pyanyj")
            /\ finalAlcoholLevel' = state'.alcoholLevel
            /\ state'.stabilityTime = 7
            /\ timers'["ALCOHOL"] = TimerArmed
            /\ last'.call # "none"
            /\ state'.currentState = "ALCOHOL"
                  => Progress(hook, state') = 100]_vars

\* C6 witness: the primary hook, ready and in phase ALCOHOL, has just
\* handled an alcohol payload and holds the sober label.
C6_Witness ==
    /\ hook = "primary"
    /\ last.alcohol # Undefined
    /\ last.call # "none"
    /\ hasBeenReady
    /\ state.currentState = "ALCOHOL"
    /\ state.alcoholLevel = Sober
    /\ state.stabilityTime = MAX_STABILITY_TIME

\* C7 as stated: the primary hook never sends more than one request.
C7_AtMostOneRequest == hook = "primary" => posts <= 1

\* C7 amended: the primary hook sends a further request only after an
\* earlier one was rejected, and never has two requests in flight.
C7_OneRequestPerRejection ==
    hook = "primary" =>
        /\ posts <= failures + 1
        /\ (inflight.pending => posts = failures + 1)

\* C7 witness: the primary hook has sent a second request after a
\* rejection.
C7_Witness == hook = "primary" /\ posts = 2 /\ failures = 1 /\ inflight.pending

\* C8: while a request is awaiting its answer every step that calls
\* handleComplete returns at the guard: no request, no navigation, no
\* change of state, refs, timers or socket.
C8_ReentrantCompleteIsNoOp ==
    [][(inflight.pending /\ last'.call # "none")
         => /\ last'.call = "returned"
            /\ isSubmitting
            /\ UNCHANGED <<state, dirty, timers, finalAlcoholLevel,
                           hasBeenReady, isSubmitting, socket, inflight,
                           posts, route, failures>>]_vars

\* C8 witness: a handleComplete call has just returned while a request is
\* in flight.
C8_Witness == inflight.pending /\ isSubmitting /\ last.call = "returned"

\* C9: in the primary hook an endpoint failure (fetch rejects or answers
\* with an error status) does not navigate to /final-results and releases
\* refs.isSubmitting.
C9_FailureReleasesLatch ==
    [][\A answer \in {"reject", "error-status"} :
          (hook = "primary" /\ Response(answer))
             => (route' # "final-results" /\ ~isSubmitting')]_vars

\* C10: with no faceId stored, no request is sent and the results screen
\* is never shown, in both hooks.
C10_NoFaceIdNoSubmission ==
    (faceId = NullItem \/ faceId = "")
        => (posts = 0 /\ ~inflight.pending /\ route # "final-results")

\* C10 witness: handleComplete has just passed its guard and thrown for
\* the missing faceId.
C10_Witness ==
    (faceId = NullItem \/ faceId = "") /\ last.call = "threw" /\ ~isSubmitting

\* C11: in the primary hook a handleComplete call that finds no faceId
\* emits one failure notification, schedules the return to "/" and does not
\* leave the measurement screen showing with its socket disconnected.
C11_MissingFaceIdIsSignalled ==
    [][(hook = "primary" /\ last'.call = "threw")
         => /\ toasts' = toasts + 1
            /\ navHomePending' = navHomePending + 1
            /\ ~(route' = "health-check" /\ ~socket'.connected)]_vars

\* The flow is under way: the screen is mounted and rendered, no timeout
\* was signalled and handleComplete has not passed its guard.
FlowUnderWay ==
    /\ Mounted
    /\ ~dirty
    /\ \A p \in Phases : ~hasTimedOut[p]
    /\ ~isSubmitting
    /\ posts = 0
    /\ socket.connected

\* C12: while the flow is under way a timeout timer is armed for the phase
\* on screen, in both hooks, so a silent sensor source ends in handleTimeout.
C12_ActivePhaseTimerArmed ==
    FlowUnderWay => timers[state.currentState] = TimerArmed

\* C13: per flow instance handleTimeout emits at most one failure signal
\* (toast.error plus the scheduled navigate("/")), in both hooks.
C13_AtMostOneFailureSignal == toasts <= 1

\* No payload has had an effect yet: state and refs are as the first render
\* left them.
NothingReceived ==
    /\ state = InitialState
    /\ ~hasBeenReady
    /\ finalAlcoholLevel = ""
    /\ toasts = 0

\* C14: in the primary hook, when the TEMPERATURE timer expires before any
\* payload had an effect, exactly one failure signal is emitted (one toast,
\* one scheduled navigate("/"), no further timer left armed) and
\* currentState is still TEMPERATURE.
C14_SilentTemperatureTimesOutOnce ==
    [][(hook = "primary" /\ NothingReceived /\ TimerFires("TEMPERATURE"))
         => /\ toasts' = 1
            /\ navHomePending' = 1
            /\ hasTimedOut'["TEMPERATURE"]
            /\ \A p \in Phases : timers'[p] # TimerArmed
            /\ state' = state
            /\ state'.currentState = "TEMPERATURE"]_vars

\* C14 witness: the primary hook has signalled the TEMPERATURE timeout
\* without having received anything.
C14_Witness ==
    /\ hook = "primary"
    /\ state = InitialState
    /\ ~hasBeenReady
    /\ hasTimedOut["TEMPERATURE"]
    /\ timers["TEMPERATURE"] = TimerStale
    /\ toasts = 1

\* The payloads that carry a temperature or pulse reading and nothing
\* else.
ReadingPayloads ==
    {d \in SensorData :
        /\ d.alcoholLevel = Undefined
        /\ d.sensorReady = Undefined
        /\ TemperatureFires(d) \/ PulseFires(d)}

\* C15: in the primary hook every accepted temperature (pulse) reading
\* leaves the timer of that phase armed and no earlier timer pending: at
\* most one timer per phase, the one its ref holds, is pending at any time.
C15_ReadingReplacesTimer ==
    [][hook = "primary"
         => /\ orphans' = {}
            /\ (state'.stabilityTime # state.stabilityTime
                    /\ last'.alcohol = Undefined)
                  => \A d \in ReadingPayloads :
                        HandleDataEvent(d)
                           => /\ TemperatureFires(d)
                                    => timers'["TEMPERATURE"] = TimerArmed
                              /\ PulseFires(d)
                                    => timers'["PULSE"] = TimerArmed]_vars

\* C15 witness: the primary hook has accepted a second temperature reading
\* while the timer of the first was pending, and one timer is pending.
C15_Witness ==
    /\ hook = "primary"
    /\ state.currentState = "TEMPERATURE"
    /\ state.temperature = 366
    /\ state.pulse = 0
    /\ state.stabilityTime = 2
    /\ timers["TEMPERATURE"] = TimerArmed
    /\ orphans = {}

\* C16: readiness is a one-way latch in both hooks: no step sets
\* refs.hasBeenReady or state.sensorReady back to false.
C16_ReadinessIsMonotonic ==
    [][/\ hasBeenReady => hasBeenReady'
       /\ state.sensorReady => state'.sensorReady]_vars

\* C16 witness: readiness is set and the flow has since been rendered in
\* phase ALCOHOL with a classification accepted.
C16_Witness ==
    /\ hasBeenReady
    /\ state.sensorReady
    /\ rendered.currentState = "ALCOHOL"
    /\ state.currentState = "ALCOHOL"
    /\ state.alcoholLevel # Sentinel

\* C17: in the primary hook, once handleComplete has sent its request, no
\* phase timer is left armed and no timeout failure signal is emitted
\* while the request is in flight or after the results screen is shown.
C17_SubmissionCancelsTimers ==
    [][(hook = "primary" /\ (inflight.pending \/ route = "final-results"))
         => /\ \A p \in Phases : timers[p] # TimerArmed
            /\ toasts' = toasts]_vars

\* C18: in both hooks, after handleTimeout has signalled a timeout for any
\* phase, no step changes the flow state, sends a request or shows the
\* results screen.
C18_TimeoutIsTerminal ==
    [][(\E p \in Phases : hasTimedOut[p])
         => /\ state' = state
            /\ posts' = posts
            /\ route' # "final-results"]_vars

\* The measurement screen was mounted and has been left.
Unmounted == route \in {"home", "final-results"}

\* C19: after the measurement screen has unmounted no phase timer fires,
\* the navigate("/") scheduled by handleTimeout does not run, no
\* LoadingCircle timer runs onComplete and no socket listener is invoked.
C19_NothingRunsAfterUnmount ==
    [][Unmounted
         => /\ ~(\E type \in Phases : TimerFires(type))
            /\ ~NavigateHome
            /\ ~LoadingCircleTimer
            /\ ~(\E d \in Payloads : HandleDataEvent(d))]_vars

\* C20: a re-render, with the re-run of the subscribing effect it may
\* cause, does not disconnect the socket: a socket that is connected
\* before the render is connected after it.
C20_RenderKeepsSocketConnected ==
    [][(Render /\ socket.connected) => socket'.connected]_vars

\* C21: in the primary hook, with a faceId stored, a source that delivers
\* the readings of every phase in time and an endpoint that answers with
\* success, the flow eventually shows /final-results and no failure
\* signal is ever emitted.
C21_CooperativeRunReachesResults ==
    (hook = "primary" /\ route = "health-check" /\ ~FaceIdMissing(faceId))
        => (<>(route = "final-results") /\ [](toasts = 0))

\* C22: in both hooks, once refs.finalAlcoholLevel holds an accepted
\* classification no step changes it or the alcohol reading of the state.
C22_AcceptedClassificationIsKept ==
    [][finalAlcoholLevel # ""
         => /\ finalAlcoholLevel' = finalAlcoholLevel
            /\ state'.alcoholLevel = state.alcoholLevel]_vars

\* C23: a request is only ever sent with an accepted alcohol
\* classification: handleComplete called in phase ALCOHOL while
\* refs.finalAlcoholLevel is still empty sends nothing.
C23_SubmissionCarriesClassification ==
    inflight.pending => inflight.alcoholLevel \in {Sober, Drunk}

\* C24: the record sent to /health carries the temperature and the pulse
\* of the last accepted readings and the label of the accepted
\* classification.
C24_RecordCarriesLatestReadings ==
    inflight.pending
        => /\ inflight.temperature = state.temperature
           /\ inflight.pulse = state.pulse
           /\ inflight.alcoholLevel = finalAlcoholLevel

\* C25: in the primary hook a temperature or pulse field that does not
\* parse as a number is stored as 0 or ignored: no reading of the state is
\* ever not-a-number, and no failure signal results.
C25_MalformedReadingsAreZero ==
    hook = "primary"
        => /\ state.temperature # NaN
           /\ state.pulse # NaN
           /\ toasts = 0

\* C26: the progress the page hands to LoadingCircle at a render lies
\* within 0 .. 100.
C26_ProgressWithinRange ==
    (Mounted /\ ~dirty)
        => (Progress(hook, state) >= 0 /\ Progress(hook, state) <= 100)

\* The first render is still on screen and nothing has been accepted,
\* signalled or sent.
FirstRenderOnScreen ==
    /\ Mounted
    /\ ~dirty
    /\ rendered = Snapshot(InitialState)
    /\ ~hasBeenReady
    /\ finalAlcoholLevel = ""
    /\ toasts = 0
    /\ posts = 0

\* C27: on mount, and until something is accepted or a timer expires, the
\* primary hook is in the initial state (TEMPERATURE, stabilityTime 0,
\* sensorReady false, readings 0, 0 and the sentinel), no latch is set and
\* the TEMPERATURE timer, and no other, is armed.
C27_MountedInInitialState ==
    (hook = "primary" /\ FirstRenderOnScreen)
        => /\ state.currentState = "TEMPERATURE"
           /\ state.stabilityTime = 0
           /\ ~state.sensorReady
           /\ state.temperature = 0
           /\ state.pulse = 0
           /\ state.alcoholLevel = "Ne opredeleno"
           /\ \A p \in Phases : ~hasTimedOut[p]
           /\ ~isSubmitting
           /\ timers["TEMPERATURE"] = TimerArmed
           /\ timers["PULSE"] # TimerArmed
           /\ timers["ALCOHOL"] # TimerArmed
           /\ orphans = {}

\* C27 witness: the primary hook has just mounted.
C27_Witness ==
    /\ hook = "primary"
    /\ FirstRenderOnScreen
    /\ socket.connected
    /\ timers["TEMPERATURE"] = TimerArmed

\* C28: handleTimeout is idempotent per phase in both hooks: a call for a
\* phase whose latch is clear sets that latch and emits one failure signal
\* (one toast, one scheduled navigate("/")); a call for a phase whose latch
\* is set changes nothing of the flow; and no step ever clears a latch.
C28_TimeoutIdempotentPerPhase ==
    [][/\ \A type \in Phases :
            TimerFires(type) =>
                IF hasTimedOut[type]
                THEN /\ UNCHANGED <<hasTimedOut, toasts, navHomePending>>
                     /\ UNCHANGED <<state, route, socket, inflight, posts>>
                     /\ last'.timeout = "ignored"
                ELSE /\ hasTimedOut' = [hasTimedOut EXCEPT ![type] = TRUE]
                     /\ toasts' = toasts + 1
                     /\ navHomePending' = navHomePending + 1
                     /\ last'.timeout = "none"
       /\ \A p \in Phases : hasTimedOut[p] => hasTimedOut'[p]]_vars

\* C28 witness: a later handleTimeout call for a phase that had already
\* signalled has just returned at the latch test, with one signal emitted.
C28_Witness ==
    /\ last.timeout = "ignored"
    /\ toasts = 1
    /\ Cardinality({p \in Phases : hasTimedOut[p]}) = 1

\* The payloads that carry a readiness field and nothing else.
ReadinessPayloads ==
    {d \in SensorData :
        /\ d.sensorReady # Undefined
        /\ d.temperature = Undefined
        /\ d.pulse = Undefined
        /\ d.alcoholLevel = Undefined}

\* C29: whenever handleDataEvent processes (does not return early on) a
\* payload that carries a readiness field, whatever its value, while
\* readiness is false, readiness is true afterwards, in the ref and in the
\* queued state.
C29_ReadinessFieldSetsReadiness ==
    [][\A d \in ReadinessPayloads :
          (/\ ~hasBeenReady
           /\ ~DataReturnsEarly(hook, d, hasTimedOut)
           /\ HandleDataEvent(d))
          => (hasBeenReady' /\ state'.sensorReady)]_vars

\* ------------------------------------------- the two-phase hook, part_009
\* The hook of src/unnamed/part_009 has the phases TEMPERATURE and ALCOHOL,
\* the timer refs temperatureTimeout and alcoholTimeout (timers of those
\* two phases; the PULSE entry stays null) and an effect without cleanup.
Part009Phases == {"TEMPERATURE", "ALCOHOL"}

\* type SensorData of part_009: temperature and alcoholLevel.
Part009Payloads ==
    {d \in Payloads : d.pulse = Undefined /\ d.sensorReady = Undefined}

\* if (!data || (!data.temperature && !data.alcoholLevel)) return
Part009DataReturns(d) ==
    d.isNull \/ (~Truthy(d.temperature) /\ ~Truthy(d.alcoholLevel))

\* if (data.alcoholLevel !== undefined && data.alcoholLevel !== null)
Part009AlcoholFires(d) == d.alcoholLevel # Undefined

\* parseFloat(Number(data.temperature).toFixed(2)) || 0, in tenths
Part009Temperature(s) == IF ParseFloat(s) = NaN THEN 0 ELSE ParseFloat(s)

\* The updater switches TEMPERATURE to ALCOHOL.
Part009Switches(prev) ==
    /\ prev.currentState = "TEMPERATURE"
    /\ prev.stabilityTime + 1 >= MAX_STABILITY_TIME

\* setState updater of the reading branch; level is refs.finalAlcoholLevel.
Part009Updater(prev, d, level) ==
    [prev EXCEPT
        !.stabilityTime =
            IF Part009Switches(prev) THEN 0 ELSE prev.stabilityTime + 1,
        !.temperature =
            IF prev.currentState = "TEMPERATURE"
            THEN Part009Temperature(d.temperature) ELSE prev.temperature,
        !.alcoholLevel =
            IF prev.currentState = "ALCOHOL"
            THEN (IF level # "" THEN level ELSE Sentinel)
            ELSE prev.alcoholLevel,
        !.currentState =
            IF Part009Switches(prev) THEN "ALCOHOL" ELSE prev.currentState]

\* updateState({ currentState: "ALCOHOL", stabilityTime: 0 })
Part009TimeoutUpdate(prev) ==
    [prev EXCEPT !.currentState = "ALCOHOL", !.stabilityTime = 0]

\* A state update of a hook whose component is no longer mounted is dropped.
Part009SetState(next) == IF Mounted THEN next ELSE state

\* handleComplete clears and nulls both timer refs before it submits.
Part009TimersAfterComplete(t) ==
    [p \in Phases |-> IF p \in Part009Phases THEN TimerNull ELSE t[p]]

\* socket.on of the effect body.
Part009Listeners(cur) ==
    CASE cur = "TEMPERATURE" -> {"temperature"}
      [] cur = "ALCOHOL" -> {"alcohol"}
      [] OTHER -> {}

\* The state after the first render and the first run of the effect.
Part009Init ==
    /\ hook = "part009"
    /\ route = "health-check"
    /\ state = InitialState
    /\ dirty = FALSE
    /\ rendered = Snapshot(InitialState)
    /\ listenerSnap = Snapshot(InitialState)
    /\ socket = [connected |-> TRUE,
                 listeners |-> Part009Listeners("TEMPERATURE")]
    /\ timers = [p \in Phases |->
                    IF p \in Part009Phases THEN TimerArmed ELSE TimerNull]
    /\ hasTimedOut = [p \in Phases |-> FALSE]
    /\ finalAlcoholLevel = ""
    /\ hasBeenReady = FALSE
    /\ isSubmitting = FALSE
    /\ faceId \in FaceIdValues
    /\ inflight = NoRequest
    /\ posts = 0
    /\ failures = 0
    /\ toasts = 0
    /\ navHomePending = 0
    /\ pendingComplete = <<>>
    /\ orphans = {}
    /\ page = InitialPage
    /\ seq = NoSeq
    /\ last = NoStep

\* handleComplete of part_009 up to its first await, called from a closure
\* that saw snap, on timer refs t.
Part009HandleComplete(snap, level, t) ==
    LET outcome ==
            CompleteOutcome(hook, snap, isSubmitting, hasTimedOut, faceId)
    IN  CASE outcome = "returned" ->
               /\ timers' = t
               /\ UNCHANGED <<isSubmitting, socket, inflight, posts>>
          [] outcome = "threw" ->
               /\ timers' = Part009TimersAfterComplete(t)
               /\ isSubmitting' = FALSE
               /\ socket' = [connected |-> FALSE, listeners |-> {}]
               /\ UNCHANGED <<inflight, posts>>
          [] outcome = "sent" ->
               /\ timers' = Part009TimersAfterComplete(t)
               /\ isSubmitting' = TRUE
               /\ socket' = [connected |-> FALSE, listeners |-> {}]
               /\ inflight' = RequestBody(snap, level, faceId)
               /\ posts' = posts + 1

\* The socket delivers payload d: handleDataEvent of part_009.  The
\* socket.off("temperature") inside the updater runs within the handler
\* when React evaluates the updater eagerly, which it can do only when no
\* update is queued, and otherwise with the next render.
Part009HandleDataEvent(d) ==
    /\ socket.connected /\ socket.listeners # {}
    /\ CASE Part009DataReturns(d) ->
              /\ last' = Step(d, "none")
              /\ UNCHANGED <<state, dirty, timers, finalAlcoholLevel,
                             isSubmitting, socket, inflight, posts>>
         [] ~Part009DataReturns(d) /\ Part009AlcoholFires(d) ->
              LET level == MapAlcoholLevel(d.alcoholLevel)
              IN  /\ finalAlcoholLevel' = level
                  /\ state' = Part009SetState(AlcoholUpdate(state, level))
                  /\ dirty' = (dirty \/ Mounted)
                  /\ Part009HandleComplete(listenerSnap, level,
                         [timers EXCEPT !["ALCOHOL"] = TimerNull])
                  /\ last' = Step(d,
                         CompleteOutcome(hook, listenerSnap, isSubmitting,
                                         hasTimedOut, faceId))
         [] OTHER ->
              /\ Part009Updater(state, d, finalAlcoholLevel).stabilityTime
                     <= MaxCount
              /\ state' = Part009SetState(
                              Part009Updater(state, d, finalAlcoholLevel))
              /\ dirty' = (dirty \/ Mounted)
              /\ \E eager \in (IF dirty THEN {FALSE} ELSE BOOLEAN) :
                    socket' =
                        IF eager /\ Mounted /\ Part009Switches(state)
                        THEN [socket EXCEPT
                                 !.listeners = @ \ {"temperature"}]
                        ELSE socket
              /\ last' = Step(d, "none")
              /\ UNCHANGED <<timers, finalAlcoholLevel, isSubmitting,
                             inflight, posts>>
    /\ UNCHANGED <<page, seq, hook, route, rendered, listenerSnap, hasTimedOut,
                   hasBeenReady, faceId, failures, toasts, navHomePending,
                   pendingComplete, orphans>>

\* React renders the queued state.  handleComplete and with it
\* handleDataEvent are new after every state change, so the effect runs
\* again; it has no cleanup, and its body registers the listener of the
\* current phase and assigns both timer refs a new timer, leaving the
\* timers the refs held pending.
Part009Render ==
    /\ Mounted /\ dirty
    /\ dirty' = FALSE
    /\ rendered' = Snapshot(state)
    /\ listenerSnap' = Snapshot(state)
    /\ socket' = [socket EXCEPT
                    !.listeners = Part009Listeners(state.currentState)]
    /\ timers' = [p \in Phases |->
                    IF p \in Part009Phases THEN TimerArmed ELSE timers[p]]
    /\ orphans' = orphans \cup {p \in Part009Phases : timers[p] = TimerArmed}
    /\ last' = Step(NullData, "none")
    /\ UNCHANGED <<page, seq, hook, route, state, hasTimedOut, finalAlcoholLevel,
                   hasBeenReady, isSubmitting, faceId, inflight, posts,
                   failures, toasts, navHomePending, pendingComplete>>

\* A timer of phase type expires: handleTimeout(type) of part_009.  The
\* timer is the one its ref holds or one an effect run left pending; of
\* the latter the model keeps the phase, so that others of the same phase
\* may remain (more).
Part009HandleTimeout(type) ==
    /\ \E more \in BOOLEAN :
          \/ /\ type \in orphans
             /\ orphans' = IF more THEN orphans ELSE orphans \ {type}
             /\ timers' = IF TimeoutReturns(type, hasTimedOut)
                          THEN timers
                          ELSE [timers EXCEPT ![type] = ClearTimeout(@)]
          \/ /\ ~more
             /\ timers[type] = TimerArmed
             /\ orphans' = orphans
             /\ timers' = [timers EXCEPT ![type] = TimerStale]
    /\ CASE TimeoutReturns(type, hasTimedOut) ->
              UNCHANGED <<hasTimedOut, state, dirty, toasts, navHomePending>>
         [] ~TimeoutReturns(type, hasTimedOut) /\ type = "TEMPERATURE" ->
              /\ hasTimedOut' = [hasTimedOut EXCEPT ![type] = TRUE]
              /\ state' = Part009SetState(Part009TimeoutUpdate(state))
              /\ dirty' = (dirty \/ Mounted)
              /\ UNCHANGED <<toasts, navHomePending>>
         [] OTHER ->
              /\ hasTimedOut' = [hasTimedOut EXCEPT ![type] = TRUE]
              /\ toasts' = toasts + 1
              /\ navHomePending' = navHomePending + 1
              /\ UNCHANGED <<state, dirty>>
    /\ last' = TimeoutStep(TimeoutReturns(type, hasTimedOut))
    /\ UNCHANGED <<page, seq, hook, route, rendered, listenerSnap, socket,
                   finalAlcoholLevel, hasBeenReady, isSubmitting, faceId,
                   inflight, posts, failures, pendingComplete>>

\* The navigate("/") scheduled by handleTimeout runs; leaving the screen
\* runs no cleanup.
Part009NavigateHome ==
    /\ navHomePending > 0
    /\ navHomePending' = navHomePending - 1
    /\ route' = "home"
    /\ last' = Step(NullData, "none")
    /\ UNCHANGED <<page, seq, hook, state, dirty, rendered, listenerSnap, socket, timers,
                   hasTimedOut, finalAlcoholLevel, hasBeenReady, isSubmitting,
                   faceId, inflight, posts, failures, toasts, pendingComplete,
                   orphans>>

\* The presentation layer calls the handleComplete the hook returned from
\* its last render.
Part009CallHandleComplete ==
    /\ Mounted
    /\ Part009HandleComplete(rendered, finalAlcoholLevel, timers)
    /\ last' = Step(NullData,
                   CompleteOutcome(hook, rendered, isSubmitting, hasTimedOut,
                                   faceId))
    /\ UNCHANGED <<page, seq, hook, route, state, dirty, rendered, listenerSnap,
                   hasTimedOut, finalAlcoholLevel, hasBeenReady, faceId,
                   failures, toasts, navHomePending, pendingComplete,
                   orphans>>

\* The awaited fetch settles and handleComplete continues: a success status
\* navigates, an error status or a rejection reaches the catch block.
Part009Response(answer) ==
    /\ inflight.pending
    /\ inflight' = NoRequest
    /\ IF answer = "ok"
       THEN /\ route' = "final-results"
            /\ UNCHANGED <<isSubmitting, failures>>
       ELSE /\ failures < MaxFailures
            /\ isSubmitting' = FALSE
            /\ failures' = failures + 1
            /\ UNCHANGED route
    /\ last' = Step(NullData, "none")
    /\ UNCHANGED <<page, seq, hook, state, dirty, rendered, listenerSnap, socket, timers,
                   hasTimedOut, finalAlcoholLevel, hasBeenReady, faceId,
                   posts, toasts, navHomePending, pendingComplete, orphans>>

Part009Next ==
    \/ \E d \in Part009Payloads : Part009HandleDataEvent(d)
    \/ Part009Render
    \/ \E type \in Part009Phases : Part009HandleTimeout(type)
    \/ Part009NavigateHome
    \/ Part009CallHandleComplete
    \/ \E answer \in Answers : Part009Response(answer)

Part009Spec == Part009Init /\ [][Part009Next]_vars

\* C30: in the two-phase hook, the first expiry of a TEMPERATURE timer
\* while the flow is on screen in phase TEMPERATURE signals a fatal failure
\* (one toast, one scheduled navigate("/")) and leaves currentState
\* unchanged, so that the flow does not enter ALCOHOL.
C30_TemperatureTimeoutIsFatal ==
    [][(/\ Mounted
        /\ state.currentState = "TEMPERATURE"
        /\ ~hasTimedOut["TEMPERATURE"]
        /\ Part009HandleTimeout("TEMPERATURE"))
       => /\ toasts' = toasts + 1
          /\ navHomePending' = navHomePending + 1
          /\ state'.currentState = state.currentState]_vars

\* C31: in the hook of part_009 every timer armed by an earlier run of the
\* effect is cancelled when a reading is accepted and the effect runs
\* again: no timer is pending other than the ones the two refs hold, so a
\* timer armed at mount cannot fire while readings keep arriving.
C31_EarlierTimersCancelled ==
    hook = "part009" => orphans = {}

\* C32: LoadingCircle schedules onComplete only in a render whose progress
\* is at least 100, and onComplete runs only as one of the calls so
\* scheduled: the queue of scheduled calls grows only by such a render and
\* shrinks only by running its oldest entry.
C32_OnCompleteOnlyAfterFullProgress ==
    [][pendingComplete' # pendingComplete
       => \/ /\ Mounted /\ dirty
             /\ Progress(hook, state) >= 100
             /\ state' = state
             /\ pendingComplete' = Append(pendingComplete, Snapshot(state))
          \/ /\ pendingComplete # <<>>
             /\ pendingComplete' = Tail(pendingComplete)
             /\ last'.call = CompleteOutcome(hook, Head(pendingComplete),
                                 isSubmitting, hasTimedOut, faceId)]_vars

\* C32 witness: an onComplete scheduled by a render with full progress has
\* run after the flow left the screen, where nothing else calls
\* handleComplete.
C32_Witness ==
    /\ ~Mounted
    /\ last.call # "none"
    /\ last.alcohol = Undefined
    /\ pendingComplete = <<>>

\* ------------------------------------------- the countdown of the page
\* if (currentState === "ALCOHOL" && sensorReady && !countdownStarted)
PageStarts(cur, ready, started) == cur = "ALCOHOL" /\ ready /\ ~started

\* The dependencies of the countdown effect in a render of state s.
PageDeps(s, pg) ==
    [currentState |-> s.currentState, sensorReady |-> s.sensorReady,
     countdownStarted |-> pg.countdownStarted]

\* The countdown effect runs again: a dependency changed.
PageEffectRuns(s, pg) == PageDeps(s, pg) # pg.deps

\* The effect starts the countdown in this render.
PageSetsState(s, pg) ==
    /\ PageEffectRuns(s, pg)
    /\ PageStarts(s.currentState, s.sensorReady, pg.countdownStarted)

\* The page after a render of state s: when the effect runs again, the
\* cleanup of its last run clears the interval that run started, and the
\* body starts a new one only under the test of PageStarts.
PageAfterRender(s, pg) ==
    CASE ~PageEffectRuns(s, pg) -> pg
      [] PageSetsState(s, pg) ->
           [countdown |-> SecondsLeft, countdownStarted |-> TRUE,
            interval |-> TRUE, deps |-> PageDeps(s, pg)]
      [] OTHER -> [pg EXCEPT !.interval = FALSE, !.deps = PageDeps(s, pg)]

\* A render of the hook and of the page with its countdown effect; the
\* effect's setCountdownStarted and setCountdown queue another render.
PageRender ==
    /\ RenderHook(PageSetsState(state, page))
    /\ page' = PageAfterRender(state, page)

\* The interval of the countdown effect ticks:
\* setCountdown((prev) => prev > 0 ? prev - 1 : (clearInterval, 0)).
\* Unmounting the page runs the cleanup, so no tick follows it.
CountdownTick ==
    /\ Mounted /\ page.interval
    /\ page' = IF page.countdown > 0
               THEN [page EXCEPT !.countdown = @ - 1]
               ELSE [page EXCEPT !.interval = FALSE, !.countdown = 0]
    /\ dirty' = (dirty \/ page.countdown > 0)
    /\ last' = Step(NullData, "none")
    /\ UNCHANGED <<seq, hook, route, state, rendered, listenerSnap, socket,
                   timers, hasTimedOut, finalAlcoholLevel, hasBeenReady,
                   isSubmitting, faceId, inflight, posts, failures, toasts,
                   navHomePending, pendingComplete, orphans>>

\* The payloads of a source that sends one valid field at a time, in any
\* phase.
CountdownPayloads ==
    {d \in SensorData :
        /\ Cardinality(Fields(d)) = 1
        /\ d.temperature \in {Undefined, "36.6"}
        /\ d.alcoholLevel \in {Undefined, "normal"}
        /\ d.sensorReady \in {Undefined, "true"}}

CountdownNext ==
    \/ \E d \in CountdownPayloads : HandleDataEvent(d)
    \/ PageRender
    \/ CountdownTick
    \/ TimerExpires
    \/ NavigateHome
    \/ LoadingCircleTimer
    \/ EndpointSucceeds

\* The hook with a source of valid one-field payloads, rendered by the
\* HealthCheck page.
CountdownSpec == Init /\ [][CountdownNext]_vars

C35_CountdownKeepsRunning ==
    [][(Mounted /\ Mounted' /\ page.interval)
         => (page'.interval \/ page.countdown = 0)]_vars

\* --------------------------------------------- the sequence-driven hooks
\* const STATE_SEQUENCE: StateKey[] = ["TEMPERATURE", "ALCOHOL"]
STATE_SEQUENCE == <<"TEMPERATURE", "ALCOHOL">>

\* STATE_SEQUENCE.indexOf(cur), counted from 1; 0 when cur is not in it.
IndexOf(cur) ==
    IF \E i \in 1..Len(STATE_SEQUENCE) : STATE_SEQUENCE[i] = cur
    THEN CHOOSE i \in 1..Len(STATE_SEQUENCE) : STATE_SEQUENCE[i] = cur
    ELSE 0

\* The phase whose completion submits.
LastPhase == STATE_SEQUENCE[Len(STATE_SEQUENCE)]

\* IsLast that takes every phase for the last one.
IsLast_Always(cur) == TRUE

\* !(currentIndex < STATE_SEQUENCE.length - 1)
IsLast(cur) == ~(IndexOf(cur) < Len(STATE_SEQUENCE))

\* STATE_SEQUENCE[currentIndex + 1]
NextOf(cur) == STATE_SEQUENCE[IndexOf(cur) + 1]

\* LoadingCircle timers of a sequence-driven hook pending at once.
MaxLate == 2

\* A sober or drunk field that a payload does not carry.
Missing == -1

\* Payloads of the sequence-driven hooks: temperature, alcoholLevel and the
\* numeric fields sober and drunk.
SeqData ==
    [isNull : {FALSE}, temperature : {"36.6", Undefined},
     alcoholLevel : {"normal", "high", Undefined},
     sober : {0, 1, Missing}, drunk : {0, 1, Missing}]

SeqNull ==
    [isNull |-> TRUE, temperature |-> Undefined, alcoholLevel |-> Undefined,
     sober |-> Missing, drunk |-> Missing]

\* Number(data.temperature), in tenths
NumberOf(s) == ParseFloat(s)

\* Math.min and Math.max
Min(a, b) == IF a < b THEN a ELSE b
Max(a, b) == IF a > b THEN a ELSE b

\* What the callbacks created by a render of a sequence-driven hook read.
SeqSnapshot(s, completed) ==
    [currentState |-> s.currentState, stabilityTime |-> s.stabilityTime,
     temperature |-> s.temperature, alcoholLevel |-> s.alcoholLevel,
     processCompleted |-> completed]

\* What handleComplete reads from the render that created it.
SeqClosure(s, completed) ==
    [currentState |-> s.currentState, temperature |-> s.temperature,
     alcoholLevel |-> s.alcoholLevel, processCompleted |-> completed]

\* progress of the pages that show two phases (part_001, part_005), rounded
\* down to a whole percent.
SeqProgress(s) ==
    CASE s.currentState = "TEMPERATURE" ->
             (s.stabilityTime * 100) \div MAX_STABILITY_TIME
      [] s.currentState # "TEMPERATURE" /\ s.alcoholLevel # Sentinel -> 100
      [] OTHER -> 0

\* A state update of a hook whose component is no longer mounted is dropped.
SeqSetState(next) == IF Mounted THEN next ELSE state

\* body of the fetch call: state.temperatureData and state.alcoholData of
\* the closure.
SeqRequestBody(snap, id) ==
    [pending |-> TRUE, temperature |-> snap.temperature, pulse |-> 0,
     alcoholLevel |-> snap.alcoholLevel, faceId |-> id]

\* How a call of handleComplete from a closure that saw snap ends before
\* its first await, given the latch that guards it.
SeqCompleteOutcome(snap, latch, id) ==
    CASE latch -> "returned"
      [] ~latch /\ ~IsLast(snap.currentState) -> "advanced"
      [] ~latch /\ IsLast(snap.currentState) /\ FaceIdMissing(id) -> "threw"
      [] OTHER -> "sent"

\* updateState({ currentState: STATE_SEQUENCE[currentIndex + 1],
\*               stabilityTime: 0 })
SeqAdvance(prev, snap) ==
    [prev EXCEPT !.currentState = NextOf(snap.currentState),
                 !.stabilityTime = 0]

\* Variables that no sequence-driven hook writes.
SeqUnused ==
    UNCHANGED <<page, hook, timers, hasTimedOut, finalAlcoholLevel,
                hasBeenReady, faceId, orphans>>

\* The state after construction of sequence-driven hook h, whose first
\* effect left the socket and the refs as given.
SeqInit(h, firstSocket, firstSeq) ==
    /\ hook = h
    /\ route = "health-check"
    /\ state = InitialState
    /\ dirty = FALSE
    /\ rendered = SeqSnapshot(InitialState, FALSE)
    /\ listenerSnap = SeqSnapshot(InitialState, FALSE)
    /\ socket = firstSocket
    /\ timers = NoTimers
    /\ hasTimedOut = [p \in Phases |-> FALSE]
    /\ finalAlcoholLevel = ""
    /\ hasBeenReady = FALSE
    /\ isSubmitting = FALSE
    /\ faceId \in FaceIdValues
    /\ inflight = NoRequest
    /\ posts = 0
    /\ failures = 0
    /\ toasts = 0
    /\ navHomePending = 0
    /\ pendingComplete = <<>>
    /\ orphans = {}
    /\ page = InitialPage
    /\ seq = firstSeq
    /\ last = NoStep

\* socket.disconnect()
Disconnected == [connected |-> FALSE, listeners |-> {}]

\* ------------------------- the third variant (useHealthCheck.ts 438-711)
\* configureSocketListeners: the data channel registered for a phase.
ThirdListeners(cur) ==
    CASE cur = "TEMPERATURE" -> {"temperature"}
      [] cur = "ALCOHOL" -> {"alcohol"}
      [] OTHER -> {}

\* The effect body: a new socket with the listeners of the phase, the
\* timeout armed, the latch reset, the stability interval started.
ThirdSocket(cur) == [connected |-> TRUE, listeners |-> ThirdListeners(cur)]

ThirdAfterBody(q) ==
    [q EXCEPT !.hasTimedOut = FALSE, !.timeout = TimerArmed,
              !.interval = TRUE]

\* The effect cleanup: clearTimeout(refs.timeout), clearInterval.
ThirdAfterCleanup(q) ==
    [q EXCEPT !.timeout = ClearTimeout(q.timeout), !.interval = FALSE]

ThirdInit ==
    SeqInit("third", ThirdSocket("TEMPERATURE"), ThirdAfterBody(NoSeq))

\* Payloads the server can emit to the third variant.
ThirdPayloads ==
    {d \in SeqData : d.alcoholLevel = Undefined} \cup {SeqNull}

\* let alcoholStatus = sentinel; if (data.sober === 0) ...;
\* if (data.drunk === 0) ...
ThirdAlcoholStatus(d) ==
    IF d.drunk = 0 THEN Drunk
    ELSE IF d.sober = 0 THEN Sober ELSE Sentinel

\* stabilityTime + 1 without the cap of Math.min.
ThirdIncrement_Uncapped(n) == n + 1

\* Math.min(state.stabilityTime + 1, MAX_STABILITY_TIME)
ThirdIncrement(n) == Min(n + 1, MAX_STABILITY_TIME)

\* The object handleDataEvent passes to updateState, merged into prev; the
\* values it computes come from the closure snap of the render that
\* created the listener.
ThirdDataUpdate(prev, snap, d) ==
    [prev EXCEPT
        !.stabilityTime = ThirdIncrement(snap.stabilityTime),
        !.temperature = IF snap.currentState = "TEMPERATURE"
                        THEN NumberOf(d.temperature) ELSE snap.temperature,
        !.alcoholLevel = IF snap.currentState = "ALCOHOL"
                         THEN ThirdAlcoholStatus(d) ELSE snap.alcoholLevel]

\* handleDataEvent
ThirdHandleDataEvent(d) ==
    /\ hook = "third"
    /\ socket.connected /\ socket.listeners # {}
    /\ IF d.isNull
       THEN UNCHANGED <<state, dirty, seq>>
       ELSE /\ state' = SeqSetState(ThirdDataUpdate(state, listenerSnap, d))
            /\ dirty' = (dirty \/ Mounted)
            /\ seq' = [seq EXCEPT !.timeout = TimerArmed]
    /\ last' = Step(d, "none")
    /\ UNCHANGED <<route, rendered, listenerSnap, socket, isSubmitting,
                   inflight, posts, failures, toasts, navHomePending,
                   pendingComplete>>
    /\ SeqUnused

\* The dependencies of the socket effect changed: state.currentState,
\* state.stabilityTime, or handleDataEvent through state.temperatureData and
\* state.alcoholData.
ThirdEffectRuns(snap, s) == snap # SeqSnapshot(s, FALSE)

\* React renders the queued state: LoadingCircle's effect (onComplete is a
\* new handleComplete, whose dependencies hold state) and the socket effect.
ThirdRender ==
    /\ hook = "third"
    /\ Mounted /\ dirty
    /\ CircleSchedules(SeqProgress(state))
           => Len(pendingComplete) < MaxLate
    /\ dirty' = FALSE
    /\ rendered' = SeqSnapshot(state, FALSE)
    /\ pendingComplete' =
          IF CircleSchedules(SeqProgress(state))
          THEN Append(pendingComplete, SeqClosure(state, FALSE))
          ELSE pendingComplete
    /\ IF ThirdEffectRuns(rendered, state)
       THEN /\ socket' = ThirdSocket(state.currentState)
            /\ seq' = ThirdAfterBody(ThirdAfterCleanup(seq))
            /\ listenerSnap' = SeqSnapshot(state, FALSE)
       ELSE UNCHANGED <<socket, seq, listenerSnap>>
    /\ last' = NoStep
    /\ UNCHANGED <<route, state, isSubmitting, inflight, posts, failures,
                   toasts, navHomePending>>
    /\ SeqUnused

\* Math.max(state.stabilityTime - 1, 0)
ThirdDecrement(n) == Max(n - 1, 0)

\* A tick of stabilityInterval; late says whether more than
\* STABILITY_UPDATE_INTERVAL passed since refs.lastDataTime.  The interval
\* reads state.stabilityTime of the render whose effect created it.
ThirdTick ==
    /\ hook = "third"
    /\ seq.interval
    /\ \E late \in BOOLEAN :
          IF late
          THEN /\ state' = SeqSetState(
                      [state EXCEPT !.stabilityTime =
                           ThirdDecrement(listenerSnap.stabilityTime)])
               /\ dirty' = (dirty \/ Mounted)
          ELSE UNCHANGED <<state, dirty>>
    /\ last' = NoStep
    /\ UNCHANGED <<route, rendered, listenerSnap, socket, seq, isSubmitting,
                   inflight, posts, failures, toasts, navHomePending,
                   pendingComplete>>
    /\ SeqUnused

\* navigate away from the screen: the component unmounts and the effect
\* cleanup runs.
ThirdLeave(q) == IF Mounted THEN ThirdAfterCleanup(q) ELSE q

\* handleTimeout, called by the timer of refs.timeout or by the socket's
\* connect_error or error event.
ThirdHandleTimeout ==
    /\ hook = "third"
    /\ \E byTimer \in BOOLEAN :
          /\ IF byTimer THEN seq.timeout = TimerArmed ELSE socket.connected
          /\ LET fired == IF byTimer
                          THEN [seq EXCEPT !.timeout = TimerStale] ELSE seq
             IN  IF seq.hasTimedOut
                 THEN /\ seq' = fired
                      /\ last' = TimeoutStep(TRUE)
                      /\ UNCHANGED <<route, socket, toasts>>
                 ELSE /\ seq' = [ThirdLeave(fired) EXCEPT
                                    !.hasTimedOut = TRUE]
                      /\ toasts' = toasts + 1
                      /\ route' = "home"
                      /\ socket' = IF Mounted THEN Disconnected ELSE socket
                      /\ last' = TimeoutStep(FALSE)
    /\ UNCHANGED <<state, dirty, rendered, listenerSnap, isSubmitting,
                   inflight, posts, failures, navHomePending,
                   pendingComplete>>
    /\ SeqUnused

\* handleComplete up to its first await, called from a closure that saw
\* snap.
ThirdHandleComplete(snap) ==
    LET outcome == SeqCompleteOutcome(snap, isSubmitting, faceId)
    IN  /\ IF outcome = "advanced"
           THEN /\ state' = SeqSetState(SeqAdvance(state, snap))
                /\ dirty' = (dirty \/ Mounted)
           ELSE UNCHANGED <<state, dirty>>
        /\ socket' = IF outcome \in {"threw", "sent"}
                     THEN Disconnected ELSE socket
        /\ isSubmitting' = (isSubmitting \/ outcome = "sent")
        /\ inflight' = IF outcome = "sent"
                       THEN SeqRequestBody(snap, faceId) ELSE inflight
        /\ posts' = IF outcome = "sent" THEN posts + 1 ELSE posts
        /\ last' = Step(SeqNull, outcome)

\* The timer LoadingCircle set 500 ms ago calls the onComplete it captured.
ThirdLoadingCircleTimer ==
    /\ hook = "third"
    /\ pendingComplete # <<>>
    /\ pendingComplete' = Tail(pendingComplete)
    /\ ThirdHandleComplete(Head(pendingComplete))
    /\ UNCHANGED <<route, rendered, listenerSnap, seq, failures, toasts,
                   navHomePending>>
    /\ SeqUnused

\* The awaited fetch settles and handleComplete continues: results are
\* stored and navigate("/complete-authentication") runs, or the catch
\* block releases refs.isSubmitting.
ThirdResponse(answer) ==
    /\ hook = "third"
    /\ inflight.pending
    /\ inflight' = NoRequest
    /\ IF answer = "ok"
       THEN /\ route' = "complete-authentication"
            /\ seq' = ThirdLeave(seq)
            /\ socket' = IF Mounted THEN Disconnected ELSE socket
            /\ UNCHANGED <<isSubmitting, failures>>
       ELSE /\ failures < MaxFailures
            /\ isSubmitting' = FALSE
            /\ failures' = failures + 1
            /\ UNCHANGED <<route, seq, socket>>
    /\ last' = NoStep
    /\ UNCHANGED <<state, dirty, rendered, listenerSnap, posts, toasts,
                   navHomePending, pendingComplete>>
    /\ SeqUnused

ThirdNext ==
    \/ \E d \in ThirdPayloads : ThirdHandleDataEvent(d)
    \/ ThirdRender
    \/ ThirdTick
    \/ ThirdHandleTimeout
    \/ ThirdLoadingCircleTimer
    \/ \E answer \in Answers : ThirdResponse(answer)

ThirdSpec == ThirdInit /\ [][ThirdNext]_vars

\* ------------------------------------------------- the hook of part_008
\* configureSocketListeners: the data channels registered for a phase.
Part008Listeners(cur) ==
    {"camera"} \cup
    CASE cur = "TEMPERATURE" -> {"temperature"}
      [] cur = "ALCOHOL" -> {"alcohol"}
      [] OTHER -> {}

Part008Socket(cur) ==
    [connected |-> TRUE, listeners |-> Part008Listeners(cur)]

\* The first effect arms no timer.
Part008Init == SeqInit("part008", Part008Socket("TEMPERATURE"), NoSeq)

\* Payloads the server can emit to part_008.
Part008Payloads ==
    {d \in SeqData : d.sober = Missing /\ d.drunk = Missing} \cup {SeqNull}

\* let alcoholStatus = sentinel; if (data.alcoholLevel) ...
Part008AlcoholStatus(d) ==
    IF Truthy(d.alcoholLevel) THEN MapAlcoholLevel(d.alcoholLevel)
    ELSE Sentinel

\* Number(data.temperature) || 0
Part008Temperature(t) == IF NumberOf(t) = NaN THEN 0 ELSE NumberOf(t)

\* The functional updater of handleDataEvent.
Part008Updater(prev, d) ==
    IF prev.currentState = "ALCOHOL"
    THEN [prev EXCEPT !.stabilityTime = MAX_STABILITY_TIME,
                      !.alcoholLevel = Part008AlcoholStatus(d)]
    ELSE [prev EXCEPT
             !.stabilityTime =
                 IF prev.currentState = "TEMPERATURE"
                 THEN Min(prev.stabilityTime + 1, MAX_STABILITY_TIME)
                 ELSE prev.stabilityTime,
             !.temperature =
                 IF prev.currentState = "TEMPERATURE"
                 THEN Part008Temperature(d.temperature)
                 ELSE prev.temperature]

\* handleDataEvent.  It is memoised on [handleTimeout], so the listener is
\* the one of the first render for good: the state.currentState it tests
\* and the handleComplete it would schedule are those of listenerSnap.
Part008HandleDataEvent(d) ==
    /\ hook = "part008"
    /\ socket.connected /\ socket.listeners # {}
    /\ IF d.isNull
       THEN UNCHANGED <<state, dirty, seq, pendingComplete>>
       ELSE /\ state' = SeqSetState(Part008Updater(state, d))
            /\ dirty' = (dirty \/ Mounted)
            /\ seq' = [seq EXCEPT !.timeout = TimerArmed]
            /\ pendingComplete' =
                  IF listenerSnap.currentState = "ALCOHOL"
                  THEN Append(pendingComplete,
                              SeqClosure(listenerSnap, FALSE))
                  ELSE pendingComplete
    /\ last' = Step(d, "none")
    /\ UNCHANGED <<route, rendered, listenerSnap, socket, isSubmitting,
                   inflight, posts, failures, toasts, navHomePending>>
    /\ SeqUnused

\* The socket effect depends on state.currentState (handleTimeout,
\* handleDataEvent and navigate never change).
Part008EffectRuns(snap, s) == snap.currentState # s.currentState

\* React renders the queued state.  The effect's cleanup disconnects and
\* sets refs.socket to null, so its body never returns early; neither
\* touches refs.timeout.
Part008Render ==
    /\ hook = "part008"
    /\ Mounted /\ dirty
    /\ CircleSchedules(SeqProgress(state))
           => Len(pendingComplete) < MaxLate
    /\ dirty' = FALSE
    /\ rendered' = SeqSnapshot(state, FALSE)
    /\ pendingComplete' =
          IF CircleSchedules(SeqProgress(state))
          THEN Append(pendingComplete, SeqClosure(state, FALSE))
          ELSE pendingComplete
    /\ IF Part008EffectRuns(rendered, state)
       THEN /\ socket' = Part008Socket(state.currentState)
            /\ seq' = [seq EXCEPT !.hasTimedOut = FALSE]
       ELSE UNCHANGED <<socket, seq>>
    /\ last' = NoStep
    /\ UNCHANGED <<route, state, listenerSnap, isSubmitting, inflight, posts,
                   failures, toasts, navHomePending>>
    /\ SeqUnused

\* handleTimeout, called by the timer of refs.timeout (which no cleanup
\* clears, so it can fire after the screen is gone) or by the socket's
\* connect_error or error event.
Part008HandleTimeout ==
    /\ hook = "part008"
    /\ \E byTimer \in BOOLEAN :
          /\ IF byTimer THEN seq.timeout = TimerArmed ELSE socket.connected
          /\ LET fired == IF byTimer
                          THEN [seq EXCEPT !.timeout = TimerStale] ELSE seq
             IN  IF seq.hasTimedOut
                 THEN /\ seq' = fired
                      /\ last' = TimeoutStep(TRUE)
                      /\ UNCHANGED <<route, socket, toasts>>
                 ELSE /\ seq' = [fired EXCEPT !.hasTimedOut = TRUE]
                      /\ toasts' = toasts + 1
                      /\ route' = "home"
                      /\ socket' = IF Mounted THEN Disconnected ELSE socket
                      /\ last' = TimeoutStep(FALSE)
    /\ UNCHANGED <<state, dirty, rendered, listenerSnap, isSubmitting,
                   inflight, posts, failures, navHomePending,
                   pendingComplete>>
    /\ SeqUnused

\* handleComplete up to its first await, called from a closure that saw
\* snap.  (The toast of the catch block is not counted in toasts, which
\* counts the timeout toasts.)
Part008HandleComplete(snap) ==
    LET outcome == SeqCompleteOutcome(snap, isSubmitting, faceId)
    IN  /\ IF outcome = "advanced"
           THEN /\ state' = SeqSetState(SeqAdvance(state, snap))
                /\ dirty' = (dirty \/ Mounted)
           ELSE UNCHANGED <<state, dirty>>
        /\ isSubmitting' = (isSubmitting \/ outcome = "sent")
        /\ inflight' = IF outcome = "sent"
                       THEN SeqRequestBody(snap, faceId) ELSE inflight
        /\ posts' = IF outcome = "sent" THEN posts + 1 ELSE posts
        /\ last' = Step(SeqNull, outcome)

\* The timer LoadingCircle set 500 ms ago calls the onComplete it captured.
Part008LoadingCircleTimer ==
    /\ hook = "part008"
    /\ pendingComplete # <<>>
    /\ pendingComplete' = Tail(pendingComplete)
    /\ Part008HandleComplete(Head(pendingComplete))
    /\ UNCHANGED <<route, rendered, listenerSnap, socket, seq, failures,
                   toasts, navHomePending>>
    /\ SeqUnused

\* The awaited fetch settles and handleComplete continues: results are
\* stored, resetSession() runs, navigate("/complete-authentication") runs
\* and navigate("/") is scheduled 4 s later; or the catch block releases
\* refs.isSubmitting.
Part008Response(answer) ==
    /\ hook = "part008"
    /\ inflight.pending
    /\ inflight' = NoRequest
    /\ IF answer = "ok"
       THEN /\ isSubmitting' = FALSE
            /\ seq' = [seq EXCEPT !.hasTimedOut = FALSE]
            /\ state' = SeqSetState(InitialState)
            /\ dirty' = (dirty \/ Mounted)
            /\ route' = "complete-authentication"
            /\ socket' = IF Mounted THEN Disconnected ELSE socket
            /\ navHomePending' = navHomePending + 1
            /\ UNCHANGED failures
       ELSE /\ failures < MaxFailures
            /\ isSubmitting' = FALSE
            /\ failures' = failures + 1
            /\ UNCHANGED <<route, seq, socket, state, dirty, navHomePending>>
    /\ last' = NoStep
    /\ UNCHANGED <<rendered, listenerSnap, posts, toasts, pendingComplete>>
    /\ SeqUnused

\* The timer set after the successful submission calls navigate("/").
Part008NavigateHome ==
    /\ hook = "part008"
    /\ navHomePending > 0
    /\ navHomePending' = navHomePending - 1
    /\ route' = "home"
    /\ socket' = IF Mounted THEN Disconnected ELSE socket
    /\ last' = NoStep
    /\ UNCHANGED <<state, dirty, rendered, listenerSnap, seq, isSubmitting,
                   inflight, posts, failures, toasts, pendingComplete>>
    /\ SeqUnused

Part008Next ==
    \/ \E d \in Part008Payloads : Part008HandleDataEvent(d)
    \/ Part008Render
    \/ Part008HandleTimeout
    \/ Part008LoadingCircleTimer
    \/ \E answer \in Answers : Part008Response(answer)
    \/ Part008NavigateHome

Part008Spec == Part008Init /\ [][Part008Next]_vars

\* Both sequence-driven hooks that submit with fetch.
SequenceInit == ThirdInit \/ Part008Init

SequenceNext == ThirdNext \/ Part008Next

SequenceSpec == SequenceInit /\ [][SequenceNext]_vars

\* C33: in the third variant and in part_008, a handleComplete call made
\* while the screen is mounted in a phase that is not the last of
\* STATE_SEQUENCE moves to exactly the next phase, sets stabilityTime to 0,
\* leaves refs.isSubmitting released and sends no request; and no
\* handleComplete call, however late its closure, skips a phase, moves the
\* phase backward, or submits from a closure or a mounted screen that is
\* not in the last phase.
C33_CompleteAdvancesOnePhase ==
    [][(pendingComplete # <<>> /\ pendingComplete' = Tail(pendingComplete))
         => /\ (Mounted /\ state.currentState # LastPhase)
                  => /\ state'.currentState = NextOf(state.currentState)
                     /\ state'.stabilityTime = 0
                     /\ ~isSubmitting'
                     /\ posts' = posts /\ ~inflight'.pending
            /\ IndexOf(state'.currentState) - IndexOf(state.currentState)
                  \in {0, 1}
            /\ posts' # posts
                  => /\ Head(pendingComplete).currentState = LastPhase
                     /\ Mounted => state.currentState = LastPhase]_vars

\* C33 witness: a late call from a TEMPERATURE closure has just run on a
\* screen that already rendered ALCOHOL.
C33_Witness ==
    /\ hook \in {"third", "part008"}
    /\ Mounted
    /\ last.call = "advanced"
    /\ rendered.currentState = "ALCOHOL"
    /\ state.currentState = "ALCOHOL" /\ state.stabilityTime = 0
    /\ posts = 0

\* ------------------------------------------------- the hook of part_007
Part007Socket == [connected |-> TRUE, listeners |-> {"temperature"}]

\* The body of the socket effect and of the interval effect.  Both return
\* at once when processCompleted is set; otherwise the latch is reset, a
\* new socket listens to "temperature", refs.timeout is armed and the
\* stability interval starts.  In phase ALCOHOL listenToAlcoholData()
\* subscribes to the alcohol value and arms a second timer over
\* refs.timeout, so the first stays pending with no ref to it.
Part007AfterBody(q, cur, completed) ==
    IF completed THEN q
    ELSE [q EXCEPT !.hasTimedOut = FALSE, !.timeout = TimerArmed,
                   !.interval = TRUE,
                   !.subscribed = (cur = "ALCOHOL"),
                   !.orphan = (q.orphan \/ cur = "ALCOHOL")]

\* The cleanups of the two effects; a run that returned at once left none.
Part007AfterCleanup(q, hadCleanup) ==
    IF hadCleanup
    THEN [q EXCEPT !.timeout = ClearTimeout(q.timeout), !.interval = FALSE,
                   !.subscribed = FALSE]
    ELSE q

Part007SocketAfterBody(sock, cur, completed) ==
    IF completed THEN sock ELSE Part007Socket

Part007SocketAfterCleanup(sock, hadCleanup) ==
    IF hadCleanup THEN Disconnected ELSE sock

Part007Init ==
    SeqInit("part007", Part007Socket,
            Part007AfterBody(NoSeq, "TEMPERATURE", FALSE))

\* Payloads the server can emit to part_007.
Part007Payloads ==
    {d \in SeqData : d.sober = Missing /\ d.drunk = Missing} \cup {SeqNull}

\* How a call of handleComplete from a closure cl ends.
Part007Outcome(cl, latch) ==
    CASE latch \/ cl.processCompleted -> "returned"
      [] ~(latch \/ cl.processCompleted) /\ ~IsLast(cl.currentState)
             -> "advanced"
      [] OTHER -> "finished"

\* handleComplete: state, refs and processCompleted, socket, and
\* refs.isSubmitting after a call from closure cl.
Part007StateAfterComplete(s, cl, latch) ==
    IF Part007Outcome(cl, latch) = "advanced" /\ Mounted
    THEN SeqAdvance(s, cl) ELSE s

Part007SeqAfterComplete(q, cl, latch) ==
    LET set == [q EXCEPT !.processCompleted = (q.processCompleted \/ Mounted)]
    IN  CASE Part007Outcome(cl, latch) = "returned" -> q
          [] Part007Outcome(cl, latch) = "advanced" -> set
          [] OTHER -> [set EXCEPT !.timeout = TimerNull,
                                  !.hasTimedOut = TRUE,
                                  !.navCompletePending = TRUE]

Part007SocketAfterComplete(sock, cl, latch) ==
    IF Part007Outcome(cl, latch) = "finished" THEN Disconnected ELSE sock

Part007LatchAfterComplete(cl, latch) ==
    latch \/ Part007Outcome(cl, latch) = "finished"

\* The closure of the callbacks the last effect run registered.
Part007Closure == SeqClosure(listenerSnap, listenerSnap.processCompleted)

\* Math.min(prev.stabilityTime + 1, MAX_STABILITY_TIME) >= MAX_STABILITY_TIME
Part007Stabilised(prev) ==
    Min(prev.stabilityTime + 1, MAX_STABILITY_TIME) >= MAX_STABILITY_TIME

\* The functional updater of handleDataEvent, without the call of
\* handleComplete it makes.
Part007Updater(prev, d) ==
    [prev EXCEPT
        !.stabilityTime = Min(prev.stabilityTime + 1, MAX_STABILITY_TIME),
        !.temperature = NumberOf(d.temperature)]

\* handleDataEvent, registered by the effect run that listenerSnap records.
\* The updater calls handleComplete() when the counter reaches the
\* threshold; the update handleComplete queues is applied after the
\* updater's own.
Part007HandleDataEvent(d) ==
    /\ hook = "part007"
    /\ socket.connected /\ "temperature" \in socket.listeners
    /\ IF d.isNull
       THEN /\ UNCHANGED <<state, dirty, seq, socket, isSubmitting>>
            /\ last' = Step(d, "none")
       ELSE IF listenerSnap.currentState = "TEMPERATURE"
               /\ Truthy(d.temperature)
            THEN LET armed == [seq EXCEPT !.timeout = TimerArmed]
                     counted == Part007Updater(state, d)
                     calls == Part007Stabilised(state)
                 IN  /\ state' =
                           IF calls
                           THEN Part007StateAfterComplete(counted,
                                    Part007Closure, isSubmitting)
                           ELSE counted
                     /\ seq' =
                           IF calls
                           THEN Part007SeqAfterComplete(armed,
                                    Part007Closure, isSubmitting)
                           ELSE armed
                     /\ socket' =
                           IF calls
                           THEN Part007SocketAfterComplete(socket,
                                    Part007Closure, isSubmitting)
                           ELSE socket
                     /\ isSubmitting' =
                           IF calls
                           THEN Part007LatchAfterComplete(Part007Closure,
                                    isSubmitting)
                           ELSE isSubmitting
                     /\ dirty' = TRUE
                     /\ last' = Step(d,
                           IF calls
                           THEN Part007Outcome(Part007Closure, isSubmitting)
                           ELSE "none")
            ELSE /\ seq' = [seq EXCEPT !.timeout = TimerArmed]
                 /\ UNCHANGED <<state, dirty, socket, isSubmitting>>
                 /\ last' = Step(d, "none")
    /\ UNCHANGED <<route, rendered, listenerSnap, inflight, posts, failures,
                   toasts, navHomePending, pendingComplete>>
    /\ SeqUnused

\* The dependencies of both effects changed: processCompleted or
\* state.currentState (handleTimeout and listenToAlcoholData change with
\* them or not at all).
Part007EffectRuns(snap, s, completed) ==
    snap.currentState # s.currentState \/ snap.processCompleted # completed

\* LoadingCircle is keyed by the phase and its effect depends on progress
\* and on onComplete, which is a new handleComplete when state.currentState
\* or processCompleted changed.
Part007CircleRuns(snap, s, completed) ==
    \/ Part007EffectRuns(snap, s, completed)
    \/ SeqProgress(s) # SeqProgress(snap)

\* React renders the queued state and runs the effects.
Part007Render ==
    /\ hook = "part007"
    /\ Mounted /\ dirty
    /\ LET schedules ==
               /\ CircleSchedules(SeqProgress(state))
               /\ Part007CircleRuns(rendered, state, seq.processCompleted)
       IN  /\ schedules => Len(pendingComplete) < MaxLate
           /\ pendingComplete' =
                 IF schedules
                 THEN Append(pendingComplete,
                             SeqClosure(state, seq.processCompleted))
                 ELSE pendingComplete
    /\ dirty' = FALSE
    /\ rendered' = SeqSnapshot(state, seq.processCompleted)
    /\ IF Part007EffectRuns(rendered, state, seq.processCompleted)
       THEN /\ socket' = Part007SocketAfterBody(
                             Part007SocketAfterCleanup(socket,
                                 ~listenerSnap.processCompleted),
                             state.currentState, seq.processCompleted)
            /\ seq' = Part007AfterBody(
                          Part007AfterCleanup(seq,
                              ~listenerSnap.processCompleted),
                          state.currentState, seq.processCompleted)
            /\ listenerSnap' = SeqSnapshot(state, seq.processCompleted)
       ELSE UNCHANGED <<socket, seq, listenerSnap>>
    /\ last' = NoStep
    /\ UNCHANGED <<route, state, isSubmitting, inflight, posts, failures,
                   toasts, navHomePending>>
    /\ SeqUnused

\* A tick of stabilityInterval; late says whether more than
\* STABILITY_UPDATE_INTERVAL passed since refs.lastDataTime.  The updater
\* is functional: Math.max(prev.stabilityTime - 1, 0).
Part007Tick ==
    /\ hook = "part007"
    /\ seq.interval
    /\ \E late \in BOOLEAN :
          IF late
          THEN /\ state' = SeqSetState(
                      [state EXCEPT !.stabilityTime =
                           Max(state.stabilityTime - 1, 0)])
               /\ dirty' = (dirty \/ Mounted)
          ELSE UNCHANGED <<state, dirty>>
    /\ last' = NoStep
    /\ UNCHANGED <<route, rendered, listenerSnap, socket, seq, isSubmitting,
                   inflight, posts, failures, toasts, navHomePending,
                   pendingComplete>>
    /\ SeqUnused

\* navigate away from the screen: the component unmounts and the cleanups
\* of the last effect run, if it left any, run.
Part007Leave(q) ==
    IF Mounted THEN Part007AfterCleanup(q, ~listenerSnap.processCompleted)
    ELSE q

Part007SocketAfterLeave(sock) ==
    IF Mounted
    THEN Part007SocketAfterCleanup(sock, ~listenerSnap.processCompleted)
    ELSE sock

\* handleTimeout, called by the timer of refs.timeout or by the timer that
\* listenToAlcoholData left without a ref.
Part007HandleTimeout ==
    /\ hook = "part007"
    /\ \E byRef \in BOOLEAN :
          /\ IF byRef THEN seq.timeout = TimerArmed ELSE seq.orphan
          /\ LET fired == IF byRef
                          THEN [seq EXCEPT !.timeout = TimerStale]
                          ELSE [seq EXCEPT !.orphan = FALSE]
             IN  IF seq.hasTimedOut
                 THEN /\ seq' = fired
                      /\ last' = TimeoutStep(TRUE)
                      /\ UNCHANGED <<route, socket, toasts>>
                 ELSE /\ seq' = [Part007Leave(fired) EXCEPT
                                    !.hasTimedOut = TRUE]
                      /\ toasts' = toasts + 1
                      /\ route' = "home"
                      /\ socket' = Part007SocketAfterLeave(socket)
                      /\ last' = TimeoutStep(FALSE)
    /\ UNCHANGED <<state, dirty, rendered, listenerSnap, isSubmitting,
                   inflight, posts, failures, navHomePending,
                   pendingComplete>>
    /\ SeqUnused

\* The timer LoadingCircle set 500 ms ago calls the onComplete it captured.
Part007LoadingCircleTimer ==
    /\ hook = "part007"
    /\ pendingComplete # <<>>
    /\ pendingComplete' = Tail(pendingComplete)
    /\ state' = Part007StateAfterComplete(state, Head(pendingComplete),
                                          isSubmitting)
    /\ dirty' = (dirty \/ (Mounted /\ Part007Outcome(Head(pendingComplete),
                                          isSubmitting) # "returned"))
    /\ seq' = Part007SeqAfterComplete(seq, Head(pendingComplete),
                                      isSubmitting)
    /\ socket' = Part007SocketAfterComplete(socket, Head(pendingComplete),
                                            isSubmitting)
    /\ isSubmitting' = Part007LatchAfterComplete(Head(pendingComplete),
                                                 isSubmitting)
    /\ last' = Step(SeqNull,
                    Part007Outcome(Head(pendingComplete), isSubmitting))
    /\ UNCHANGED <<route, rendered, listenerSnap, inflight, posts, failures,
                   toasts, navHomePending>>
    /\ SeqUnused

\* The onValue callback of listenToAlcoholData receives a value with the
\* given sober and drunk fields (v is null when the snapshot holds no
\* value).  Its processCompleted and handleComplete are those of the effect
\* run that subscribed.
Part007AlcoholValue(v) ==
    /\ hook = "part007"
    /\ seq.subscribed
    /\ IF listenerSnap.processCompleted \/ v.isNull \/ seq.alcoholMeasured
       THEN /\ UNCHANGED <<state, dirty, seq, socket, isSubmitting>>
            /\ last' = Step(v, "none")
       ELSE LET labelled ==
                    SeqSetState([state EXCEPT
                        !.alcoholLevel = ThirdAlcoholStatus(v)])
                measured ==
                    [seq EXCEPT !.timeout = ClearTimeout(seq.timeout),
                                !.alcoholMeasured = TRUE,
                                !.subscribed = FALSE]
            IN  /\ state' = Part007StateAfterComplete(labelled,
                                Part007Closure, isSubmitting)
                /\ dirty' = (dirty \/ Mounted)
                /\ seq' = Part007SeqAfterComplete(measured, Part007Closure,
                                                  isSubmitting)
                /\ socket' = Part007SocketAfterComplete(socket,
                                 Part007Closure, isSubmitting)
                /\ isSubmitting' = Part007LatchAfterComplete(Part007Closure,
                                                             isSubmitting)
                /\ last' = Step(v,
                               Part007Outcome(Part007Closure, isSubmitting))
    /\ UNCHANGED <<route, rendered, listenerSnap, inflight, posts, failures,
                   toasts, navHomePending, pendingComplete>>
    /\ SeqUnused

\* The timer handleComplete set in the last phase calls
\* navigate("/complete-authentication").
Part007NavigateComplete ==
    /\ hook = "part007"
    /\ seq.navCompletePending
    /\ route' = "complete-authentication"
    /\ seq' = [Part007Leave(seq) EXCEPT !.navCompletePending = FALSE]
    /\ socket' = Part007SocketAfterLeave(socket)
    /\ last' = NoStep
    /\ UNCHANGED <<state, dirty, rendered, listenerSnap, isSubmitting,
                   inflight, posts, failures, toasts, navHomePending,
                   pendingComplete>>
    /\ SeqUnused

\* Values the alcohol database entry can take.
AlcoholValues ==
    {d \in SeqData : d.temperature = Undefined /\ d.alcoholLevel = Undefined}
        \cup {SeqNull}

\* The steps of part_007 that end the flow in phase ALCOHOL: a reading of
\* the alcohol value, onComplete of LoadingCircle, the final navigation.
Part007Ending ==
    \/ \E v \in AlcoholValues : Part007AlcoholValue(v)
    \/ Part007LoadingCircleTimer
    \/ Part007NavigateComplete

\* The steps of part_007 that can occur.
Part007Next ==
    \/ \E d \in Part007Payloads : Part007HandleDataEvent(d)
    \/ Part007Render
    \/ Part007Tick
    \/ Part007HandleTimeout

Part007Spec == Part007Init /\ [][Part007Next]_vars

Part007FullSpec == Part007Init /\ [][Part007Next \/ Part007Ending]_vars

\* C36: in part_007, once the screen has rendered phase ALCOHOL the alcohol
\* listener is subscribed and a timeout timer is pending, so that a reading
\* or a timeout can still end the flow.
C36_AlcoholPhaseStaysLive ==
    (hook = "part007" /\ Mounted /\ ~dirty
        /\ rendered.currentState = "ALCOHOL")
        => (seq.subscribed /\ (seq.timeout = TimerArmed \/ seq.orphan))

\* ------------------------------------------ the hooks with stability decay
DecayInit == ThirdInit \/ Part007Init

DecayNext == ThirdNext \/ Part007Next

DecaySpec == DecayInit /\ [][DecayNext]_vars

\* C38: in the third variant and in part_007, whatever the order of
\* readings and decay ticks, stabilityTime stays between 0 and
\* MAX_STABILITY_TIME.
C38_StabilityTimeInRange ==
    hook \in {"third", "part007"}
        => (0 <= state.stabilityTime
               /\ state.stabilityTime <= MAX_STABILITY_TIME)

\* C38 witness: after a reading was counted and decayed again, a late tick
\* has run with the counter already at 0.
C38_Witness ==
    /\ hook = "third"
    /\ Mounted /\ dirty
    /\ state.currentState = "TEMPERATURE"
    /\ state.temperature = NumberOf("36.6")
    /\ state.stabilityTime = 0
    /\ rendered = SeqSnapshot(state, FALSE)

\* ------------------------------------------------- the hook of part_006
\* The socket the effect creates: its "connect" event is still to come.
Part006Socket == [connected |-> FALSE, listeners |-> {"temperature"}]

\* The effect cleanup: the socket is disconnected by the caller;
\* refs.stopPolling = true; clearTimeout(refs.timeout).  (It does not
\* unsubscribe: the function pollAlcoholData returns is dropped.)
Part006AfterCleanup(q) ==
    [q EXCEPT !.stopPolling = TRUE, !.timeout = ClearTimeout(q.timeout)]

\* pollAlcoholData(): if (refs.stopPolling) return; onValue(...)
Part006Poll(q) ==
    IF q.stopPolling THEN q ELSE [q EXCEPT !.subscribed = TRUE]

\* The effect body after the socket is created.
Part006AfterBody(q, cur) == IF cur = "ALCOHOL" THEN Part006Poll(q) ELSE q

Part006Init ==
    SeqInit("part006", Part006Socket, Part006AfterBody(NoSeq, "TEMPERATURE"))

\* Payloads the server can emit to part_006.
Part006Payloads ==
    {d \in SeqData : d.sober = Missing /\ d.drunk = Missing
                     /\ d.alcoholLevel = Undefined} \cup {SeqNull}

\* The socket's "connect" event: refs.timeout = setTimeout(handleTimeout).
Part006Connect ==
    /\ hook = "part006"
    /\ ~socket.connected /\ socket.listeners # {}
    /\ socket' = [socket EXCEPT !.connected = TRUE]
    /\ seq' = [seq EXCEPT !.timeout = TimerArmed]
    /\ last' = NoStep
    /\ UNCHANGED <<route, state, dirty, rendered, listenerSnap, isSubmitting,
                   inflight, posts, failures, toasts, navHomePending,
                   pendingComplete>>
    /\ SeqUnused

\* The functional updater of handleTemperatureData.
Part006Updater(prev, d) ==
    [prev EXCEPT
        !.stabilityTime =
            IF prev.currentState = "TEMPERATURE"
            THEN Min(prev.stabilityTime + 1, MAX_STABILITY_TIME)
            ELSE prev.stabilityTime,
        !.temperature = Part008Temperature(d.temperature)]

\* handleTemperatureData: it does not touch refs.timeout.
Part006HandleTemperatureData(d) ==
    /\ hook = "part006"
    /\ socket.connected /\ "temperature" \in socket.listeners
    /\ IF d.isNull \/ ~Truthy(d.temperature)
       THEN UNCHANGED <<state, dirty>>
       ELSE /\ state' = SeqSetState(Part006Updater(state, d))
            /\ dirty' = (dirty \/ Mounted)
    /\ last' = Step(d, "none")
    /\ UNCHANGED <<route, rendered, listenerSnap, socket, seq, isSubmitting,
                   inflight, posts, failures, toasts, navHomePending,
                   pendingComplete>>
    /\ SeqUnused

\* The effect depends on state.currentState (handleTemperatureData and
\* pollAlcoholData never change).
Part006EffectRuns(snap, s) == snap.currentState # s.currentState

\* React renders the queued state: LoadingCircle's effect (onComplete is a
\* new handleComplete, whose dependencies hold state) and the hook's effect,
\* whose cleanup runs before its body.
Part006Render ==
    /\ hook = "part006"
    /\ Mounted /\ dirty
    /\ CircleSchedules(SeqProgress(state))
           => Len(pendingComplete) < MaxLate
    /\ dirty' = FALSE
    /\ rendered' = SeqSnapshot(state, FALSE)
    /\ pendingComplete' =
          IF CircleSchedules(SeqProgress(state))
          THEN Append(pendingComplete, SeqClosure(state, FALSE))
          ELSE pendingComplete
    /\ IF Part006EffectRuns(rendered, state)
       THEN /\ socket' = Part006Socket
            /\ seq' = Part006AfterBody(Part006AfterCleanup(seq),
                                       state.currentState)
            /\ listenerSnap' = SeqSnapshot(state, FALSE)
       ELSE UNCHANGED <<socket, seq, listenerSnap>>
    /\ last' = NoStep
    /\ UNCHANGED <<route, state, isSubmitting, inflight, posts, failures,
                   toasts, navHomePending>>
    /\ SeqUnused

\* navigate away from the screen: the component unmounts and the effect
\* cleanup runs.
Part006Leave(q) == IF Mounted THEN Part006AfterCleanup(q) ELSE q

\* handleTimeout, called by the timer of refs.timeout: no toast.
Part006HandleTimeout ==
    /\ hook = "part006"
    /\ seq.timeout = TimerArmed
    /\ LET fired == [seq EXCEPT !.timeout = TimerStale]
       IN  IF seq.hasTimedOut
           THEN /\ seq' = fired
                /\ last' = TimeoutStep(TRUE)
                /\ UNCHANGED <<route, socket>>
           ELSE /\ seq' = [Part006Leave(fired) EXCEPT !.hasTimedOut = TRUE]
                /\ route' = "home"
                /\ socket' = IF Mounted THEN Disconnected ELSE socket
                /\ last' = TimeoutStep(FALSE)
    /\ UNCHANGED <<state, dirty, rendered, listenerSnap, isSubmitting,
                   inflight, posts, failures, toasts, navHomePending,
                   pendingComplete>>
    /\ SeqUnused

\* How a call of handleComplete from a closure cl ends; the latch is
\* refs.completed.
Part006Outcome(cl, latch, id) ==
    CASE latch -> "returned"
      [] ~latch /\ ~IsLast(cl.currentState) -> "advanced"
      [] ~latch /\ IsLast(cl.currentState) /\ FaceIdMissing(id) -> "threw"
      [] OTHER -> "finished"

\* handleComplete, called from a closure cl: it advances, or disconnects
\* and (with a faceId) stores the results, stops polling and navigates to
\* /complete-authentication.  There is no request.
Part006HandleComplete(cl) ==
    LET outcome == Part006Outcome(cl, seq.completed, faceId)
    IN  /\ IF outcome = "advanced"
           THEN /\ state' = SeqSetState(SeqAdvance(state, cl))
                /\ dirty' = (dirty \/ Mounted)
           ELSE UNCHANGED <<state, dirty>>
        /\ socket' = IF outcome \in {"threw", "finished"}
                     THEN Disconnected ELSE socket
        /\ seq' = IF outcome = "finished"
                  THEN [Part006Leave(seq) EXCEPT !.completed = TRUE,
                                                 !.stopPolling = TRUE]
                  ELSE seq
        /\ route' = IF outcome = "finished"
                    THEN "complete-authentication" ELSE route
        /\ last' = Step(SeqNull, outcome)

\* The timer LoadingCircle set 500 ms ago calls the onComplete it captured.
Part006LoadingCircleTimer ==
    /\ hook = "part006"
    /\ pendingComplete # <<>>
    /\ pendingComplete' = Tail(pendingComplete)
    /\ Part006HandleComplete(Head(pendingComplete))
    /\ UNCHANGED <<rendered, listenerSnap, isSubmitting, inflight, posts,
                   failures, toasts, navHomePending>>
    /\ SeqUnused

\* sober === 0 ? sober label : drunk === 0 ? drunk label : none
Part006AlcoholStatus(v) ==
    IF v.sober = 0 THEN Sober
    ELSE IF v.drunk = 0 THEN Drunk ELSE Sentinel

\* The onValue callback of pollAlcoholData receives value v: a value with
\* sober or drunk 0 stops polling, sets the label and stabilityTime, and
\* schedules the handleComplete of the first render (pollAlcoholData is
\* memoised on []) 300 ms later.
Part006AlcoholValue(v) ==
    /\ hook = "part006"
    /\ seq.subscribed
    /\ IF v.isNull \/ Part006AlcoholStatus(v) = Sentinel
       THEN UNCHANGED <<state, dirty, seq, pendingComplete>>
       ELSE /\ Len(pendingComplete) < MaxLate
            /\ state' = SeqSetState(
                   [state EXCEPT !.stabilityTime = MAX_STABILITY_TIME,
                                 !.alcoholLevel = Part006AlcoholStatus(v)])
            /\ dirty' = (dirty \/ Mounted)
            /\ seq' = [seq EXCEPT !.stopPolling = TRUE,
                                  !.subscribed = FALSE]
            /\ pendingComplete' =
                  Append(pendingComplete, SeqClosure(InitialState, FALSE))
    /\ last' = Step(v, "none")
    /\ UNCHANGED <<route, rendered, listenerSnap, socket, isSubmitting,
                   inflight, posts, failures, toasts, navHomePending>>
    /\ SeqUnused

\* The steps of part_006 that can occur.
Part006Next ==
    \/ Part006Connect
    \/ \E d \in Part006Payloads : Part006HandleTemperatureData(d)
    \/ Part006Render
    \/ Part006HandleTimeout
    \/ Part006LoadingCircleTimer

Part006Spec == Part006Init /\ [][Part006Next]_vars

\* Part006Next with the readings of the alcohol value.
Part006FullSpec ==
    Part006Init
        /\ [][Part006Next
                \/ \E v \in AlcoholValues : Part006AlcoholValue(v)]_vars

\* C37: in part_006, once the screen has rendered phase ALCOHOL the alcohol
\* subscription is active (pollAlcoholData was not suppressed by
\* refs.stopPolling), unless a reading already ended it.
C37_AlcoholSubscriptionStarts ==
    (hook = "part006" /\ Mounted /\ ~dirty
        /\ rendered.currentState = "ALCOHOL"
        /\ state.alcoholLevel = Sentinel)
        => seq.subscribed

====
